---- MODULE Spec2Model ----
(***************************************************************************)
(* PersonalDashboard: the ledger store (SQLite tables expenses, incomes,   *)
(* events), the three record repositories, the expense / income services   *)
(* and the tax summary builder.                                            *)
(*                                                                         *)
(* Text is modelled as a sequence of one-character strings where the code  *)
(* formats, parses or compares it (ISO dates, HH:MM times, LIKE prefixes); *)
(* free text that is only stored and returned is a TLA+ string.            *)
(* An Optional value is a sequence: <<>> is None / NULL, <<v>> is v.       *)
(***************************************************************************)
EXTENDS Integers, Sequences, FiniteSets, TLC

\* Total number of rows the behaviours insert, over the three tables.
MaxInserts == 2

None == <<>>
Some(v) == <<v>>
IsNone(o) == o = <<>>
Val(o) == o[1]

(***************************************************************************)
(* Text helpers                                                            *)
(***************************************************************************)
DigitChars == <<"0", "1", "2", "3", "4", "5", "6", "7", "8", "9">>

Digit(n) == DigitChars[n + 1]

DigitVals ==
    ("0" :> 0 @@ "1" :> 1 @@ "2" :> 2 @@ "3" :> 3 @@ "4" :> 4 @@
     "5" :> 5 @@ "6" :> 6 @@ "7" :> 7 @@ "8" :> 8 @@ "9" :> 9)

DigitVal(c) == DigitVals[c]

\* The characters of stored text, in code-point order.
Alphabet ==
    <<" ", "#", "-", "0", "1", "2", "3", "4", "5", "6", "7", "8", "9", ":",
      "A", "B", "C", "D", "E", "F", "G", "H", "I", "J", "K", "L", "M",
      "N", "O", "P", "Q", "R", "S", "T", "U", "V", "W", "X", "Y", "Z",
      "a", "b", "c", "d", "e", "f", "g", "h", "i", "j", "k", "l", "m",
      "n", "o", "p", "q", "r", "s", "t", "u", "v", "w", "x", "y", "z">>

\* Rank of each character in code-point order.
Rank ==
    [c \in {Alphabet[i] : i \in 1..Len(Alphabet)} |->
        CHOOSE i \in 1..Len(Alphabet) : Alphabet[i] = c]

\* Rank of a character in code-point order (BINARY collation compares by it).
Ord(c) == Rank[c]

RECURSIVE IntToStr(_)
\* str(n) for n >= 0.
IntToStr(n) == IF n < 10 THEN <<Digit(n)>>
               ELSE IntToStr(n \div 10) \o <<Digit(n % 10)>>

RECURSIVE PadLeft(_, _)
PadLeft(s, w) == IF Len(s) >= w THEN s ELSE PadLeft(<<"0">> \o s, w)

\* f"{n:0wd}": at least w digits, zero-padded on the left.
ZeroPad(n, w) == PadLeft(IntToStr(n), w)

RECURSIVE ParseInt(_)
\* int(s) of a digit string.
ParseInt(s) == IF Len(s) = 0 THEN 0
               ELSE 10 * ParseInt(SubSeq(s, 1, Len(s) - 1)) + DigitVal(s[Len(s)])

RECURSIVE StrLess(_, _)
\* a < b in SQLite's BINARY collation (byte-wise, a proper prefix is smaller).
StrLess(a, b) ==
    IF Len(b) = 0 THEN FALSE
    ELSE IF Len(a) = 0 THEN TRUE
    ELSE IF a[1] # b[1] THEN Ord(a[1]) < Ord(b[1])
    ELSE StrLess(Tail(a), Tail(b))

StrLeq(a, b) == a = b \/ StrLess(a, b)

\* s LIKE prefix || '%'
Like(s, prefix) ==
    /\ Len(s) >= Len(prefix)
    /\ SubSeq(s, 1, Len(prefix)) = prefix

(***************************************************************************)
(* datetime.date and datetime.time                                         *)
(***************************************************************************)
Date(y, m, d) == [year |-> y, month |-> m, day |-> d]

\* date.isoformat(): YYYY-MM-DD
isoformat(d) ==
    ZeroPad(d.year, 4) \o <<"-">> \o ZeroPad(d.month, 2) \o <<"-">> \o ZeroPad(d.day, 2)

\* date.fromisoformat()
fromisoformat(s) ==
    Date(ParseInt(SubSeq(s, 1, 4)), ParseInt(SubSeq(s, 6, 7)), ParseInt(SubSeq(s, 9, 10)))

Time(h, m, s) == [hour |-> h, minute |-> m, second |-> s]

TimeLess(a, b) ==
    \/ a.hour < b.hour
    \/ a.hour = b.hour /\ a.minute < b.minute
    \/ a.hour = b.hour /\ a.minute = b.minute /\ a.second < b.second

\* _format_time with the hour on the 12-hour clock: t.strftime("%I:%M").
format_time_12h(t) ==
    IF IsNone(t) THEN None
    ELSE Some(ZeroPad(IF Val(t).hour % 12 = 0 THEN 12 ELSE Val(t).hour % 12, 2)
              \o <<":">> \o ZeroPad(Val(t).minute, 2))

\* _format_time: t.strftime("%H:%M"), None for None.
format_time(t) ==
    IF IsNone(t) THEN None
    ELSE Some(ZeroPad(Val(t).hour, 2) \o <<":">> \o ZeroPad(Val(t).minute, 2))

\* val.split(":"): the parts of s between colons, in order.
RECURSIVE Split(_, _)
Split(s, cur) ==
    IF Len(s) = 0 THEN <<cur>>
    ELSE IF s[1] = ":" THEN <<cur>> \o Split(Tail(s), <<>>)
    ELSE Split(Tail(s), cur \o <<s[1]>>)

\* _parse_time: time(int(parts[0]), int(parts[1])) of val.split(":"), None for None.
parse_time(val) ==
    IF IsNone(val) THEN None
    ELSE LET parts == Split(Val(val), <<>>)
         IN  Some(Time(ParseInt(parts[1]), ParseInt(parts[2]), 0))

\* str.strip() leaves nothing: the text is empty or all spaces.
IsBlank(s) == \A i \in 1..Len(s) : s[i] = " "

(***************************************************************************)
(* Enumerations: member name |-> stored value                              *)
(***************************************************************************)
ExpenseCategory ==
    ("RENT" :> "rent" @@ "UTILITIES" :> "utilities" @@ "SUBSCRIPTIONS" :> "subscriptions" @@
     "GROCERIES" :> "groceries" @@ "TRANSPORTATION" :> "transportation" @@
     "INSURANCE" :> "insurance" @@ "MEDICAL" :> "medical" @@ "DINING" :> "dining" @@
     "ENTERTAINMENT" :> "entertainment" @@ "EDUCATION" :> "education" @@
     "OFFICE_SUPPLIES" :> "office_supplies" @@ "COMMUNICATION" :> "communication" @@
     "TAX_PAYMENT" :> "tax_payment" @@ "PENSION" :> "pension" @@ "OTHER" :> "other")

PaymentMethod ==
    ("CASH" :> "cash" @@ "BANK_TRANSFER" :> "bank_transfer" @@ "CREDIT_CARD" :> "credit_card" @@
     "DEBIT_CARD" :> "debit_card" @@ "CONVENIENCE_STORE" :> "convenience_store" @@
     "DIRECT_DEBIT" :> "direct_debit" @@ "OTHER" :> "other")

RecurrenceType == ("NONE" :> "none" @@ "MONTHLY" :> "monthly" @@ "YEARLY" :> "yearly")

JobType ==
    ("CONTRACT" :> "contract" @@ "HOURLY" :> "hourly" @@ "TASK_BASED" :> "task_based" @@
     "RETAINER" :> "retainer" @@ "OTHER" :> "other")

EventCategory ==
    ("WORK" :> "work" @@ "FAMILY" :> "family" @@ "BIRTHDAY" :> "birthday" @@
     "DEADLINE" :> "deadline" @@ "APPOINTMENT" :> "appointment" @@ "HOLIDAY" :> "holiday" @@
     "OTHER" :> "other")

EventRecurrence ==
    ("NONE" :> "none" @@ "WEEKLY" :> "weekly" @@ "MONTHLY" :> "monthly" @@ "YEARLY" :> "yearly")

\* E(value): the member of enumeration E whose value is v.
EnumOf(E, v) == CHOOSE n \in DOMAIN E : E[n] = v

(***************************************************************************)
(* Domain records and their construction invariants (__post_init__)        *)
(***************************************************************************)
Expense(amount, category, expense_date, payment_method, recurrence, notes, id) ==
    [amount |-> amount, category |-> category, expense_date |-> expense_date,
     payment_method |-> payment_method, recurrence |-> recurrence, notes |-> notes,
     id |-> id]

\* Expense.__post_init__ does not raise.
Expense_post_init(e) == ~(e.amount < 0)

Income(amount, income_date, client, job_type, notes, id) ==
    [amount |-> amount, income_date |-> income_date, client |-> client,
     job_type |-> job_type, notes |-> notes, id |-> id]

\* The client tested without strip(): only the empty text is refused.
Income_post_init_unstripped(i) == ~(i.amount < 0) /\ Len(i.client) # 0

\* Income.__post_init__ does not raise.
Income_post_init(i) == ~(i.amount < 0) /\ ~IsBlank(i.client)

Event(title, event_date, category, start_time, end_time, recurrence, color, notes, linked_income_id, linked_expense_id, id) ==
    [title |-> title, event_date |-> event_date, category |-> category,
     start_time |-> start_time, end_time |-> end_time, recurrence |-> recurrence,
     color |-> color, notes |-> notes, linked_income_id |-> linked_income_id,
     linked_expense_id |-> linked_expense_id, id |-> id]

\* Event.__post_init__ does not raise.
Event_post_init(e) ==
    /\ ~IsBlank(e.title)
    /\ ~(~IsNone(e.start_time) /\ ~IsNone(e.end_time)
         /\ TimeLess(Val(e.end_time), Val(e.start_time)))

(***************************************************************************)
(* Records the callers pass in                                             *)
(***************************************************************************)
ExpenseInputs ==
    { Expense(1000, "RENT", Date(2025, 3, 1), "BANK_TRANSFER", "MONTHLY", "", None),
      Expense(1000, "UTILITIES", Date(2025, 3, 1), "CASH", "NONE", "power", None),
      Expense(500, "UTILITIES", Date(2025, 10, 15), "DIRECT_DEBIT", "NONE", "", None),
      Expense(1000, "GROCERIES", Date(2025, 10, 15), "CASH", "NONE", "", None),
      Expense(0, "OFFICE_SUPPLIES", Date(2024, 12, 31), "CREDIT_CARD", "YEARLY", "", None) }

IncomeInputs ==
    { Income(500, Date(2025, 3, 1), <<"B", "r", "a", "v", "o">>, "CONTRACT", "", None),
      Income(3000, Date(2025, 6, 1), <<"A", "l", "p", "h", "a">>, "HOURLY", "q2", None),
      Income(500, Date(2024, 12, 31), <<"a", "c", "m", "e">>, "TASK_BASED", "", None) }

EventInputs ==
    { Event(<<"D", "u", "e">>, Date(2025, 3, 1), "DEADLINE", None, None,
            "NONE", None, "", Some(1), None, None),
      Event(<<"M", "e", "e", "t">>, Date(2025, 3, 1), "WORK",
            Some(Time(9, 0, 0)), Some(Time(10, 30, 0)),
            "WEEKLY", Some("#FF0000"), "room 2", None, Some(1), None),
      Event(<<"C", "a", "l", "l">>, Date(2025, 3, 1), "WORK",
            Some(Time(9, 0, 30)), Some(Time(9, 0, 45)),
            "NONE", None, "", None, None, None),
      Event(<<"T", "a", "x">>, Date(2024, 12, 31), "APPOINTMENT",
            Some(Time(14, 0, 0)), None,
            "YEARLY", None, "", Some(1), Some(1), None),
      Event(<<"N", "o", "t", "e">>, Date(2025, 3, 1), "FAMILY", None, None,
            "NONE", None, "", None, None, None),
      Event(<<"E", "v", "e">>, Date(2024, 12, 31), "HOLIDAY", None, Some(Time(23, 59, 0)),
            "YEARLY", None, "", None, None, None) }

\* Records whose amount was assigned after construction: the dataclasses are not
\* frozen and __post_init__ runs at construction only, so such a record is what
\* brings an amount below 0 to the store.
ExpenseReassigned ==
    { Expense(-1, "RENT", Date(2025, 3, 1), "BANK_TRANSFER", "MONTHLY", "", None) }

IncomeReassigned ==
    { Income(-1, Date(2025, 6, 1), <<"A", "l", "p", "h", "a">>, "HOURLY", "q2", None) }

\* The identities the store can assign within the bound.
Ids == 1..MaxInserts

\* Years and months the aggregation queries are asked for.
Years == {2024, 2025}

Months == 1..12

\* Arguments the callers construct records from: refused ones and ones on the
\* boundary of being refused.
ExpenseArgs ==
    { Expense(a, "DINING", Date(2025, 3, 1), "CASH", "NONE", "", None) : a \in {-1, 0} }

IncomeArgs ==
    { Income(a, Date(2025, 3, 1), <<"B", "r", "a", "v", "o">>, "RETAINER", "", None) :
          a \in {-1, 0} }
    \cup { Income(500, Date(2025, 3, 1), c, "OTHER", "", None) : c \in {<<>>, <<" ", " ">>} }

EventArgs ==
    { Event(t, Date(2025, 3, 1), "BIRTHDAY", None, None, "NONE", None, "", None, None, None) :
          t \in {<<>>, <<" ">>} }
    \cup { Event(<<"G", "y", "m">>, Date(2025, 3, 1), "OTHER", Some(st), Some(en),
                 "MONTHLY", None, "", None, None, None) :
               st \in {Time(14, 0, 0)},
               en \in {Time(14, 0, 0), Time(13, 59, 59)} }

(***************************************************************************)
(* The store                                                               *)
(***************************************************************************)
VARIABLES
    expenses,         \* table expenses: id |-> row
    incomes,          \* table incomes:  id |-> row
    events,           \* table events:   id |-> row
    sqlite_sequence,  \* AUTOINCREMENT: per table, the largest id ever assigned
    ret               \* the last repository call: its argument and its outcome

vars == <<expenses, incomes, events, sqlite_sequence, ret>>

\* PRAGMA foreign_keys=ON, set by get_connection.
foreign_keys == TRUE

\* The outcome of one repository call.
\*   arg: the record passed (insert, update); id: the identity addressed;
\*   val: the record returned (insert); raised: "" or the exception's name;
\*   rowcount: the rows of the addressed table the statement wrote (cursor.rowcount);
\*   nulled: the events whose link the call's ON DELETE SET NULL cleared.
Outcome(op, kind, arg, id, val, raised, rowcount, nulled) ==
    [op |-> op, kind |-> kind, arg |-> arg, id |-> id, val |-> val,
     raised |-> raised, rowcount |-> rowcount, nulled |-> nulled]

\* init_db on a new database: the three tables exist and are empty.
Init ==
    /\ expenses = <<>>
    /\ incomes = <<>>
    /\ events = <<>>
    /\ sqlite_sequence = [expenses |-> 0, incomes |-> 0, events |-> 0]
    /\ ret = Outcome("init_db", "", None, None, None, "", 0, {})

Inserted == sqlite_sequence.expenses + sqlite_sequence.incomes + sqlite_sequence.events

\* table with the row of identity id replaced or added.
Put(table, id, row) ==
    [i \in DOMAIN table \cup {id} |-> IF i = id THEN row ELSE table[i]]

\* A DELETE whose WHERE clause matches no row.
RemoveNothing(table, id) == table

\* table without the row of identity id.
Remove(table, id) == [i \in DOMAIN table \ {id} |-> table[i]]

(***************************************************************************)
(* Construction of records: the dataclass __init__ followed by             *)
(* __post_init__.  No repository is involved.                              *)
(***************************************************************************)
Expense_new(e) ==
    /\ ret' = IF Expense_post_init(e)
              THEN Outcome("new", "expense", Some(e), None, Some(e), "", 0, {})
              ELSE Outcome("new", "expense", Some(e), None, None, "ValueError", 0, {})
    /\ UNCHANGED <<expenses, incomes, events, sqlite_sequence>>

Income_new(i) ==
    /\ ret' = IF Income_post_init(i)
              THEN Outcome("new", "income", Some(i), None, Some(i), "", 0, {})
              ELSE Outcome("new", "income", Some(i), None, None, "ValueError", 0, {})
    /\ UNCHANGED <<expenses, incomes, events, sqlite_sequence>>

Event_new(e) ==
    /\ ret' = IF Event_post_init(e)
              THEN Outcome("new", "event", Some(e), None, Some(e), "", 0, {})
              ELSE Outcome("new", "event", Some(e), None, None, "ValueError", 0, {})
    /\ UNCHANGED <<expenses, incomes, events, sqlite_sequence>>

(***************************************************************************)
(* ExpenseRepository                                                       *)
(***************************************************************************)
\* expense_to_row with the notes column left to its DEFAULT ''.
expense_to_row_without_notes(e) ==
    [amount |-> e.amount, category |-> ExpenseCategory[e.category],
     expense_date |-> isoformat(e.expense_date),
     payment_method |-> PaymentMethod[e.payment_method],
     recurrence |-> RecurrenceType[e.recurrence], notes |-> ""]

\* The parameters insert and update bind to the columns.
expense_to_row(e) ==
    [amount |-> e.amount, category |-> ExpenseCategory[e.category],
     expense_date |-> isoformat(e.expense_date),
     payment_method |-> PaymentMethod[e.payment_method],
     recurrence |-> RecurrenceType[e.recurrence], notes |-> e.notes]

row_to_expense(id, row) ==
    Expense(row.amount, EnumOf(ExpenseCategory, row.category),
            fromisoformat(row.expense_date), EnumOf(PaymentMethod, row.payment_method),
            EnumOf(RecurrenceType, row.recurrence), row.notes, Some(id))

\* The amount column declared without its CHECK.
CheckAmount_absent(row) == TRUE

\* CHECK(amount >= 0) of tables expenses and incomes.
CheckAmount(row) == row.amount >= 0

\* The delete of an expense on a connection that enforces no foreign key:
\* the events keep their links.
ExpenseDeleteSetNull_unenforced(id) == events

\* ON DELETE SET NULL of events.linked_expense_id, when foreign keys are enforced.
ExpenseDeleteSetNull(id) ==
    [i \in DOMAIN events |->
        IF foreign_keys /\ events[i].linked_expense_id = Some(id)
        THEN [events[i] EXCEPT !.linked_expense_id = None]
        ELSE events[i]]

\* insert into a table declared INTEGER PRIMARY KEY without AUTOINCREMENT: the
\* new identity is one more than the largest identity a row has now.
ExpenseRepository_insert_rowid(e) ==
    /\ Inserted < MaxInserts
    /\ LET row == expense_to_row(e)
           id == IF DOMAIN expenses = {} THEN 1
                 ELSE 1 + CHOOSE i \in DOMAIN expenses : \A j \in DOMAIN expenses : j <= i
       IN  IF CheckAmount(row)
           THEN /\ expenses' = Put(expenses, id, row)
                /\ sqlite_sequence' = [sqlite_sequence EXCEPT !.expenses = id]
                /\ ret' = Outcome("insert", "expense", Some(e), Some(id),
                                  Some([e EXCEPT !.id = Some(id)]), "", 1, {})
           ELSE /\ UNCHANGED <<expenses, sqlite_sequence>>
                /\ ret' = Outcome("insert", "expense", Some(e), None, None,
                                  "IntegrityError", 0, {})
    /\ UNCHANGED <<incomes, events>>

ExpenseRepository_insert(e) ==
    /\ Inserted < MaxInserts
    /\ LET row == expense_to_row(e)
           id == sqlite_sequence.expenses + 1
       IN  IF CheckAmount(row)
           THEN /\ expenses' = Put(expenses, id, row)
                /\ sqlite_sequence' = [sqlite_sequence EXCEPT !.expenses = id]
                /\ ret' = Outcome("insert", "expense", Some(e), Some(id),
                                  Some([e EXCEPT !.id = Some(id)]), "", 1, {})
           ELSE /\ UNCHANGED <<expenses, sqlite_sequence>>
                /\ ret' = Outcome("insert", "expense", Some(e), None, None,
                                  "IntegrityError", 0, {})
    /\ UNCHANGED <<incomes, events>>

\* update without the identity check: UPDATE ... WHERE id=NULL matches no row and
\* raises nothing.
ExpenseRepository_update_unchecked(e) ==
    /\ LET row == expense_to_row(e)
           hit == ~IsNone(e.id) /\ Val(e.id) \in DOMAIN expenses
       IN  IF hit /\ ~CheckAmount(row)
           THEN /\ UNCHANGED expenses
                /\ ret' = Outcome("update", "expense", Some(e), e.id, None,
                                  "IntegrityError", 0, {})
           ELSE /\ expenses' = IF hit THEN Put(expenses, Val(e.id), row) ELSE expenses
                /\ ret' = Outcome("update", "expense", Some(e), e.id, None, "",
                                  IF hit THEN 1 ELSE 0, {})
    /\ UNCHANGED <<incomes, events, sqlite_sequence>>

ExpenseRepository_update(e) ==
    /\ IF IsNone(e.id)
       THEN /\ UNCHANGED expenses
            /\ ret' = Outcome("update", "expense", Some(e), None, None, "ValueError", 0, {})
       ELSE LET row == expense_to_row(e)
                id == Val(e.id)
            IN  IF id \in DOMAIN expenses /\ ~CheckAmount(row)
                THEN /\ UNCHANGED expenses
                     /\ ret' = Outcome("update", "expense", Some(e), e.id, None,
                                       "IntegrityError", 0, {})
                ELSE /\ expenses' = IF id \in DOMAIN expenses
                                    THEN Put(expenses, id, row) ELSE expenses
                     /\ ret' = Outcome("update", "expense", Some(e), e.id, None, "",
                                       IF id \in DOMAIN expenses THEN 1 ELSE 0, {})
    /\ UNCHANGED <<incomes, events, sqlite_sequence>>

ExpenseRepository_delete(expense_id) ==
    /\ expenses' = Remove(expenses, expense_id)
    /\ events' = IF expense_id \in DOMAIN expenses
                 THEN ExpenseDeleteSetNull(expense_id) ELSE events
    /\ ret' = Outcome("delete", "expense", None, Some(expense_id), None, "",
                      IF expense_id \in DOMAIN expenses THEN 1 ELSE 0,
                      IF expense_id \in DOMAIN expenses
                      THEN {i \in DOMAIN events :
                               ExpenseDeleteSetNull(expense_id)[i] # events[i]}
                      ELSE {})
    /\ UNCHANGED <<incomes, sqlite_sequence>>

\* get_by_id: the record, or None when no row has the identity.
ExpenseRepository_get_by_id(expense_id) ==
    IF expense_id \in DOMAIN expenses
    THEN Some(row_to_expense(expense_id, expenses[expense_id]))
    ELSE None

(***************************************************************************)
(* IncomeRepository                                                        *)
(***************************************************************************)
income_to_row(i) ==
    [amount |-> i.amount, income_date |-> isoformat(i.income_date),
     client |-> i.client, job_type |-> JobType[i.job_type], notes |-> i.notes]

row_to_income(id, row) ==
    Income(row.amount, fromisoformat(row.income_date), row.client,
           EnumOf(JobType, row.job_type), row.notes, Some(id))

\* The link column declared without ON DELETE SET NULL.
IncomeDeleteNoAction(id) == events

\* ON DELETE SET NULL of events.linked_income_id, when foreign keys are enforced.
IncomeDeleteSetNull(id) ==
    [i \in DOMAIN events |->
        IF foreign_keys /\ events[i].linked_income_id = Some(id)
        THEN [events[i] EXCEPT !.linked_income_id = None]
        ELSE events[i]]

\* insert that writes the input's identity to the id column when it has one.
IncomeRepository_insert_keeping_id(i) ==
    /\ Inserted < MaxInserts
    /\ LET row == income_to_row(i)
           id == IF IsNone(i.id) THEN sqlite_sequence.incomes + 1 ELSE Val(i.id)
       IN  IF CheckAmount(row) /\ id \notin DOMAIN incomes
           THEN /\ incomes' = Put(incomes, id, row)
                /\ sqlite_sequence' =
                       [sqlite_sequence EXCEPT !.incomes = IF id > @ THEN id ELSE @]
                /\ ret' = Outcome("insert", "income", Some(i), Some(id),
                                  Some([i EXCEPT !.id = Some(id)]), "", 1, {})
           ELSE /\ UNCHANGED <<incomes, sqlite_sequence>>
                /\ ret' = Outcome("insert", "income", Some(i), None, None,
                                  "IntegrityError", 0, {})
    /\ UNCHANGED <<expenses, events>>

IncomeRepository_insert(i) ==
    /\ Inserted < MaxInserts
    /\ LET row == income_to_row(i)
           id == sqlite_sequence.incomes + 1
       IN  IF CheckAmount(row)
           THEN /\ incomes' = Put(incomes, id, row)
                /\ sqlite_sequence' = [sqlite_sequence EXCEPT !.incomes = id]
                /\ ret' = Outcome("insert", "income", Some(i), Some(id),
                                  Some([i EXCEPT !.id = Some(id)]), "", 1, {})
           ELSE /\ UNCHANGED <<incomes, sqlite_sequence>>
                /\ ret' = Outcome("insert", "income", Some(i), None, None,
                                  "IntegrityError", 0, {})
    /\ UNCHANGED <<expenses, events>>

\* update written as DELETE followed by INSERT: the row comes back under the
\* next identity of the table.
IncomeRepository_update_reinserting(i) ==
    /\ IF IsNone(i.id)
       THEN /\ UNCHANGED <<incomes, sqlite_sequence>>
            /\ ret' = Outcome("update", "income", Some(i), None, None, "ValueError", 0, {})
       ELSE LET row == income_to_row(i)
                id == Val(i.id)
                hit == id \in DOMAIN incomes /\ Inserted < MaxInserts
                new == sqlite_sequence.incomes + 1
            IN  /\ incomes' = IF hit THEN Put(Remove(incomes, id), new, row) ELSE incomes
                /\ sqlite_sequence' = IF hit THEN [sqlite_sequence EXCEPT !.incomes = new]
                                      ELSE sqlite_sequence
                /\ ret' = Outcome("update", "income", Some(i), i.id, None, "",
                                  IF hit THEN 1 ELSE 0, {})
    /\ UNCHANGED <<expenses, events>>

IncomeRepository_update(i) ==
    /\ IF IsNone(i.id)
       THEN /\ UNCHANGED incomes
            /\ ret' = Outcome("update", "income", Some(i), None, None, "ValueError", 0, {})
       ELSE LET row == income_to_row(i)
                id == Val(i.id)
            IN  IF id \in DOMAIN incomes /\ ~CheckAmount(row)
                THEN /\ UNCHANGED incomes
                     /\ ret' = Outcome("update", "income", Some(i), i.id, None,
                                       "IntegrityError", 0, {})
                ELSE /\ incomes' = IF id \in DOMAIN incomes
                                   THEN Put(incomes, id, row) ELSE incomes
                     /\ ret' = Outcome("update", "income", Some(i), i.id, None, "",
                                       IF id \in DOMAIN incomes THEN 1 ELSE 0, {})
    /\ UNCHANGED <<expenses, events, sqlite_sequence>>

IncomeRepository_delete(income_id) ==
    /\ incomes' = Remove(incomes, income_id)
    /\ events' = IF income_id \in DOMAIN incomes
                 THEN IncomeDeleteSetNull(income_id) ELSE events
    /\ ret' = Outcome("delete", "income", None, Some(income_id), None, "",
                      IF income_id \in DOMAIN incomes THEN 1 ELSE 0,
                      IF income_id \in DOMAIN incomes
                      THEN {i \in DOMAIN events :
                               IncomeDeleteSetNull(income_id)[i] # events[i]}
                      ELSE {})
    /\ UNCHANGED <<expenses, sqlite_sequence>>

\* get_by_id: the record, or None when no row has the identity.
IncomeRepository_get_by_id(income_id) ==
    IF income_id \in DOMAIN incomes
    THEN Some(row_to_income(income_id, incomes[income_id]))
    ELSE None

(***************************************************************************)
(* EventRepository                                                         *)
(***************************************************************************)
\* event_to_row with the color column never written.
event_to_row_without_color(e) ==
    [title |-> e.title, event_date |-> isoformat(e.event_date),
     category |-> EventCategory[e.category],
     start_time |-> format_time(e.start_time), end_time |-> format_time(e.end_time),
     recurrence |-> EventRecurrence[e.recurrence], color |-> None, notes |-> e.notes,
     linked_income_id |-> e.linked_income_id,
     linked_expense_id |-> e.linked_expense_id]


event_to_row(e) ==
    [title |-> e.title, event_date |-> isoformat(e.event_date),
     category |-> EventCategory[e.category],
     start_time |-> format_time(e.start_time), end_time |-> format_time(e.end_time),
     recurrence |-> EventRecurrence[e.recurrence], color |-> e.color, notes |-> e.notes,
     linked_income_id |-> e.linked_income_id,
     linked_expense_id |-> e.linked_expense_id]

row_to_event(id, row) ==
    Event(row.title, fromisoformat(row.event_date), EnumOf(EventCategory, row.category),
          parse_time(row.start_time), parse_time(row.end_time),
          EnumOf(EventRecurrence, row.recurrence), row.color, row.notes,
          row.linked_income_id, row.linked_expense_id, Some(id))

\* No foreign key is enforced: the connection's default, without the PRAGMA.
ForeignKeysHold_unenforced(row) == TRUE

\* REFERENCES incomes(id) / expenses(id): with foreign keys enforced, a row's
\* link is NULL or the id of a row of the referenced table.
ForeignKeysHold(row) ==
    \/ ~foreign_keys
    \/ /\ IsNone(row.linked_income_id) \/ Val(row.linked_income_id) \in DOMAIN incomes
       /\ IsNone(row.linked_expense_id) \/ Val(row.linked_expense_id) \in DOMAIN expenses

EventRepository_insert(e) ==
    /\ Inserted < MaxInserts
    /\ LET row == event_to_row(e)
           id == sqlite_sequence.events + 1
       IN  IF ForeignKeysHold(row)
           THEN /\ events' = Put(events, id, row)
                /\ sqlite_sequence' = [sqlite_sequence EXCEPT !.events = id]
                /\ ret' = Outcome("insert", "event", Some(e), Some(id),
                                  Some([e EXCEPT !.id = Some(id)]), "", 1, {})
           ELSE /\ UNCHANGED <<events, sqlite_sequence>>
                /\ ret' = Outcome("insert", "event", Some(e), None, None,
                                  "IntegrityError", 0, {})
    /\ UNCHANGED <<expenses, incomes>>

\* update written as INSERT OR REPLACE: a record whose identity names no row is
\* added as a new row.
EventRepository_update_or_insert(e) ==
    /\ IF IsNone(e.id)
       THEN /\ UNCHANGED events
            /\ ret' = Outcome("update", "event", Some(e), None, None, "ValueError", 0, {})
       ELSE LET row == event_to_row(e)
                id == Val(e.id)
            IN  IF ~ForeignKeysHold(row)
                THEN /\ UNCHANGED events
                     /\ ret' = Outcome("update", "event", Some(e), e.id, None,
                                       "IntegrityError", 0, {})
                ELSE /\ events' = Put(events, id, row)
                     /\ ret' = Outcome("update", "event", Some(e), e.id, None, "", 1, {})
    /\ UNCHANGED <<expenses, incomes, sqlite_sequence>>

EventRepository_update(e) ==
    /\ IF IsNone(e.id)
       THEN /\ UNCHANGED events
            /\ ret' = Outcome("update", "event", Some(e), None, None, "ValueError", 0, {})
       ELSE LET row == event_to_row(e)
                id == Val(e.id)
            IN  IF id \in DOMAIN events /\ ~ForeignKeysHold(row)
                THEN /\ UNCHANGED events
                     /\ ret' = Outcome("update", "event", Some(e), e.id, None,
                                       "IntegrityError", 0, {})
                ELSE /\ events' = IF id \in DOMAIN events
                                  THEN Put(events, id, row) ELSE events
                     /\ ret' = Outcome("update", "event", Some(e), e.id, None, "",
                                       IF id \in DOMAIN events THEN 1 ELSE 0, {})
    /\ UNCHANGED <<expenses, incomes, sqlite_sequence>>

\* delete that takes the income the event links to with it.
EventRepository_delete_cascading(event_id) ==
    /\ events' = Remove(events, event_id)
    /\ incomes' = IF /\ event_id \in DOMAIN events
                     /\ ~IsNone(events[event_id].linked_income_id)
                  THEN Remove(incomes, Val(events[event_id].linked_income_id))
                  ELSE incomes
    /\ ret' = Outcome("delete", "event", None, Some(event_id), None, "",
                      IF event_id \in DOMAIN events THEN 1 ELSE 0, {})
    /\ UNCHANGED <<expenses, sqlite_sequence>>

EventRepository_delete(event_id) ==
    /\ events' = Remove(events, event_id)
    /\ ret' = Outcome("delete", "event", None, Some(event_id), None, "",
                      IF event_id \in DOMAIN events THEN 1 ELSE 0, {})
    /\ UNCHANGED <<expenses, incomes, sqlite_sequence>>

\* get_by_id: the record, or None when no row has the identity.
EventRepository_get_by_id(event_id) ==
    IF event_id \in DOMAIN events
    THEN Some(row_to_event(event_id, events[event_id]))
    ELSE None

(***************************************************************************)
(* List queries.  ORDER BY leaves the order of rows with equal keys to the *)
(* store, so a query is the set of lists it can return.                    *)
(***************************************************************************)
\* ORDER BY key, ascending: DESC left out.
OrderingsDesc_ascending(S, key) ==
    {f \in [1..Cardinality(S) -> S] :
        \A i, j \in 1..Cardinality(S) :
            i < j => f[i] # f[j] /\ ~StrLess(key[f[j]], key[f[i]])}

\* ORDER BY key DESC: every order of the rows S in which no row comes before
\* one with a larger key.
OrderingsDesc(S, key) ==
    {f \in [1..Cardinality(S) -> S] :
        \A i, j \in 1..Cardinality(S) :
            i < j => f[i] # f[j] /\ ~StrLess(key[f[i]], key[f[j]])}

\* The month of the prefix not zero-padded: f"{year:04d}-{month}".
month_prefix_unpadded(year, month) == ZeroPad(year, 4) \o <<"-">> \o IntToStr(month)

\* prefix = f"{year:04d}-{month:02d}"
month_prefix(year, month) == ZeroPad(year, 4) \o <<"-">> \o ZeroPad(month, 2)

\* The prefix cut to the century and decade: "202" for 2025.
year_prefix_decade(year) == SubSeq(ZeroPad(year, 4), 1, 3)

\* prefix = f"{year:04d}"
year_prefix(year) == ZeroPad(year, 4)

\* SELECT * FROM expenses WHERE expense_date LIKE prefix% ORDER BY expense_date DESC
ExpensesLike(prefix) ==
    LET match == {id \in DOMAIN expenses : Like(expenses[id].expense_date, prefix)}
        key == [id \in match |-> expenses[id].expense_date]
    IN  {[k \in 1..Cardinality(match) |-> row_to_expense(f[k], expenses[f[k]])] :
            f \in OrderingsDesc(match, key)}

ExpenseRepository_get_by_month(year, month) == ExpensesLike(month_prefix(year, month))

ExpenseRepository_get_by_year(year) == ExpensesLike(year_prefix(year))

\* SELECT * FROM incomes WHERE income_date LIKE prefix% ORDER BY income_date DESC
IncomesLike(prefix) ==
    LET match == {id \in DOMAIN incomes : Like(incomes[id].income_date, prefix)}
        key == [id \in match |-> incomes[id].income_date]
    IN  {[k \in 1..Cardinality(match) |-> row_to_income(f[k], incomes[f[k]])] :
            f \in OrderingsDesc(match, key)}

IncomeRepository_get_by_month(year, month) == IncomesLike(month_prefix(year, month))

IncomeRepository_get_by_year(year) == IncomesLike(year_prefix(year))

\* SELECT client FROM incomes ORDER BY client, DISTINCT left out: one name per
\* row, rows of one name in identity order.
IncomeRepository_get_clients_of_all_rows ==
    LET key == [id \in DOMAIN incomes |-> incomes[id].client]
        f == CHOOSE g \in [1..Cardinality(DOMAIN incomes) -> DOMAIN incomes] :
                 \A i, j \in 1..Cardinality(DOMAIN incomes) :
                     i < j => \/ StrLess(key[g[i]], key[g[j]])
                              \/ key[g[i]] = key[g[j]] /\ g[i] < g[j]
    IN  [k \in 1..Cardinality(DOMAIN incomes) |-> key[f[k]]]

\* SELECT DISTINCT client FROM incomes ORDER BY client: the client column has
\* the default BINARY collation.
IncomeRepository_get_distinct_clients ==
    LET names == {incomes[id].client : id \in DOMAIN incomes}
    IN  CHOOSE f \in [1..Cardinality(names) -> names] :
            \A i, j \in 1..Cardinality(names) : i < j => StrLess(f[i], f[j])

\* WHERE date >= ? AND date <= ? with the upper bound excluded.
InRange_end_exclusive(d, start, end) ==
    StrLeq(isoformat(start), d) /\ StrLess(d, isoformat(end))

\* WHERE date >= ? AND date <= ?, the parameters being start.isoformat() and
\* end.isoformat(): a comparison of texts.
InRange(d, start, end) ==
    StrLeq(isoformat(start), d) /\ StrLeq(d, isoformat(end))

\* SELECT * FROM expenses WHERE id IN match ORDER BY expense_date DESC
ExpensesSelect(match) ==
    LET key == [id \in match |-> expenses[id].expense_date]
    IN  {[k \in 1..Cardinality(match) |-> row_to_expense(f[k], expenses[f[k]])] :
            f \in OrderingsDesc(match, key)}

ExpenseRepository_get_by_date_range(start, end) ==
    ExpensesSelect({id \in DOMAIN expenses : InRange(expenses[id].expense_date, start, end)})

ExpenseRepository_get_all == ExpensesSelect(DOMAIN expenses)

\* SELECT * FROM incomes WHERE id IN match ORDER BY income_date DESC
IncomesSelect(match) ==
    LET key == [id \in match |-> incomes[id].income_date]
    IN  {[k \in 1..Cardinality(match) |-> row_to_income(f[k], incomes[f[k]])] :
            f \in OrderingsDesc(match, key)}

IncomeRepository_get_by_date_range(start, end) ==
    IncomesSelect({id \in DOMAIN incomes : InRange(incomes[id].income_date, start, end)})

IncomeRepository_get_all == IncomesSelect(DOMAIN incomes)

\* a < b in ORDER BY of a nullable TEXT column: NULL is smaller than every text.
NullableLess(a, b) ==
    IF IsNone(b) THEN FALSE
    ELSE IF IsNone(a) THEN TRUE
    ELSE StrLess(Val(a), Val(b))

\* ORDER BY: every order of the rows S in which no row comes before one that the
\* sort keys put strictly before it; before[<<a, b>>] says the keys put a before b.
Orderings(S, before) ==
    {f \in [1..Cardinality(S) -> S] :
        \A i, j \in 1..Cardinality(S) :
            i < j => f[i] # f[j] /\ ~before[<<f[j], f[i]>>]}

\* get_all ordered like the other event queries: event_date, start_time.
EventOrderBy_ascending(match, clause) ==
    [p \in match \X match |->
        LET a == events[p[1]]
            b == events[p[2]]
        IN  IF clause = "start_time" THEN NullableLess(a.start_time, b.start_time)
            ELSE \/ StrLess(a.event_date, b.event_date)
                 \/ /\ a.event_date = b.event_date
                    /\ NullableLess(a.start_time, b.start_time)]

\* The ORDER BY clauses of the event queries, over the rows match:
\*   "start_time", "event_date, start_time", "event_date DESC, start_time".
EventOrderBy(match, clause) ==
    [p \in match \X match |->
        LET a == events[p[1]]
            b == events[p[2]]
        IN  CASE clause = "start_time" -> NullableLess(a.start_time, b.start_time)
              [] clause = "event_date, start_time" ->
                    \/ StrLess(a.event_date, b.event_date)
                    \/ /\ a.event_date = b.event_date
                       /\ NullableLess(a.start_time, b.start_time)
              [] clause = "event_date DESC, start_time" ->
                    \/ StrLess(b.event_date, a.event_date)
                    \/ /\ a.event_date = b.event_date
                       /\ NullableLess(a.start_time, b.start_time)]

\* SELECT * FROM events WHERE id IN match ORDER BY clause
EventsSelect(match, clause) ==
    {[k \in 1..Cardinality(match) |-> row_to_event(f[k], events[f[k]])] :
        f \in Orderings(match, EventOrderBy(match, clause))}

EventRepository_get_by_date(d) ==
    EventsSelect({id \in DOMAIN events : events[id].event_date = isoformat(d)},
                 "start_time")

EventRepository_get_by_month(year, month) ==
    EventsSelect({id \in DOMAIN events :
                     Like(events[id].event_date, month_prefix(year, month))},
                 "event_date, start_time")

EventRepository_get_by_date_range(start, end) ==
    EventsSelect({id \in DOMAIN events : InRange(events[id].event_date, start, end)},
                 "event_date, start_time")

EventRepository_get_all == EventsSelect(DOMAIN events, "event_date DESC, start_time")

(***************************************************************************)
(* ExpenseService, IncomeService                                           *)
(***************************************************************************)
RECURSIVE sum_amount(_)
\* sum(r.amount for r in records)
sum_amount(records) ==
    IF Len(records) = 0 THEN 0
    ELSE records[1].amount + sum_amount(Tail(records))

\* The values the call can return: one per list the query can return.
ExpenseService_monthly_total(year, month) ==
    {sum_amount(l) : l \in ExpenseRepository_get_by_month(year, month)}

ExpenseService_yearly_total(year) ==
    {sum_amount(l) : l \in ExpenseRepository_get_by_year(year)}

IncomeService_monthly_total(year, month) ==
    {sum_amount(l) : l \in IncomeRepository_get_by_month(year, month)}

IncomeService_yearly_total(year) ==
    {sum_amount(l) : l \in IncomeRepository_get_by_year(year)}

\* totals[e.category] = e.amount: the running total is overwritten.
add_to_totals_overwriting(totals, e) ==
    IF \E k \in 1..Len(totals) : totals[k].category = e.category
    THEN [k \in 1..Len(totals) |->
             IF totals[k].category = e.category
             THEN [totals[k] EXCEPT !.total = e.amount]
             ELSE totals[k]]
    ELSE Append(totals, [category |-> e.category, total |-> e.amount])

\* totals[e.category] = totals.get(e.category, 0) + e.amount, on a dict kept as
\* the sequence of its (category, total) items in insertion order.
add_to_totals(totals, e) ==
    IF \E k \in 1..Len(totals) : totals[k].category = e.category
    THEN [k \in 1..Len(totals) |->
             IF totals[k].category = e.category
             THEN [totals[k] EXCEPT !.total = @ + e.amount]
             ELSE totals[k]]
    ELSE Append(totals, [category |-> e.category, total |-> 0 + e.amount])

RECURSIVE totals_loop(_, _)
\* for e in expenses: ...
totals_loop(totals, expenses_list) ==
    IF Len(expenses_list) = 0 THEN totals
    ELSE totals_loop(add_to_totals(totals, expenses_list[1]), Tail(expenses_list))

ExpenseService_category_totals(year) ==
    {totals_loop(<<>>, l) : l \in ExpenseRepository_get_by_year(year)}

(***************************************************************************)
(* TaxService                                                              *)
(***************************************************************************)
\* cat.name.replace("_", " ").title()
category_label ==
    ("RENT" :> "Rent" @@ "UTILITIES" :> "Utilities" @@ "SUBSCRIPTIONS" :> "Subscriptions" @@
     "GROCERIES" :> "Groceries" @@ "TRANSPORTATION" :> "Transportation" @@
     "INSURANCE" :> "Insurance" @@ "MEDICAL" :> "Medical" @@ "DINING" :> "Dining" @@
     "ENTERTAINMENT" :> "Entertainment" @@ "EDUCATION" :> "Education" @@
     "OFFICE_SUPPLIES" :> "Office Supplies" @@ "COMMUNICATION" :> "Communication" @@
     "TAX_PAYMENT" :> "Tax Payment" @@ "PENSION" :> "Pension" @@ "OTHER" :> "Other")

\* The place sorted() gives x without reverse=True: ascending totals.
insert_asc(placed, x) ==
    LET k == Cardinality({i \in 1..Len(placed) : placed[i].total <= x.total})
    IN  SubSeq(placed, 1, k) \o <<x>> \o SubSeq(placed, k + 1, Len(placed))

\* A sort that keeps one item per total: x is dropped when an item of its total
\* is already placed.
insert_desc_distinct(placed, x) ==
    LET k == Cardinality({i \in 1..Len(placed) : placed[i].total >= x.total})
    IN  IF \E i \in 1..Len(placed) : placed[i].total = x.total THEN placed
        ELSE SubSeq(placed, 1, k) \o <<x>> \o SubSeq(placed, k + 1, Len(placed))

\* The place x gets when the ascending sort is reversed afterwards: before
\* every item whose total is not larger, so items of equal total come out in
\* the reverse of the order they went in.
insert_desc_reversed(placed, x) ==
    LET k == Cardinality({i \in 1..Len(placed) : placed[i].total > x.total})
    IN  SubSeq(placed, 1, k) \o <<x>> \o SubSeq(placed, k + 1, Len(placed))

\* Where sorted(..., key=lambda x: x[1], reverse=True) puts x among the items
\* already placed: after every item whose total is not smaller (the sort is stable).
insert_desc(placed, x) ==
    LET k == Cardinality({i \in 1..Len(placed) : placed[i].total >= x.total})
    IN  SubSeq(placed, 1, k) \o <<x>> \o SubSeq(placed, k + 1, Len(placed))

RECURSIVE sorted_desc(_, _)
sorted_desc(placed, items) ==
    IF Len(items) = 0 THEN placed
    ELSE sorted_desc(insert_desc(placed, items[1]), Tail(items))

CategoryBreakdown(item) ==
    [category |-> ExpenseCategory[item.category],
     category_label |-> category_label[item.category],
     total |-> item.total]

TaxSummary(year, gross_income, total_expenses, expense_breakdown) ==
    [year |-> year, gross_income |-> gross_income, total_expenses |-> total_expenses,
     expense_breakdown |-> expense_breakdown]

\* net_income floored at zero.
net_income_clamped(summary) ==
    IF summary.gross_income < summary.total_expenses THEN 0
    ELSE summary.gross_income - summary.total_expenses

\* TaxSummary.net_income
net_income(summary) == summary.gross_income - summary.total_expenses

\* The summaries the call can return.
TaxService_get_tax_summary(year) ==
    {TaxSummary(year, gross_income, total_expenses,
                LET items == sorted_desc(<<>>, category_totals)
                IN  [k \in 1..Len(items) |-> CategoryBreakdown(items[k])]) :
        gross_income \in IncomeService_yearly_total(year),
        total_expenses \in ExpenseService_yearly_total(year),
        category_totals \in ExpenseService_category_totals(year)}

(***************************************************************************)
(* Calls of the aggregation operations: each runs its queries and returns; *)
(* the services keep nothing but the repository they were given.           *)
(***************************************************************************)
ExpenseService_monthly_total_call(year, month) ==
    /\ \E total \in ExpenseService_monthly_total(year, month) :
          ret' = Outcome("monthly_total", "expense", Some(<<year, month>>), None,
                         Some(total), "", 0, {})
    /\ UNCHANGED <<expenses, incomes, events, sqlite_sequence>>

\* yearly_total kept in a cache that ignores the year: the call answers with
\* the value of the call before it when that was a yearly_total as well.
ExpenseService_yearly_total_call_memoized(year) ==
    /\ \E total \in (IF ret.op = "yearly_total" /\ ret.kind = "expense"
                     THEN {Val(ret.val)} ELSE ExpenseService_yearly_total(year)) :
          ret' = Outcome("yearly_total", "expense", Some(<<year>>), None,
                         Some(total), "", 0, {})
    /\ UNCHANGED <<expenses, incomes, events, sqlite_sequence>>

ExpenseService_yearly_total_call(year) ==
    /\ \E total \in ExpenseService_yearly_total(year) :
          ret' = Outcome("yearly_total", "expense", Some(<<year>>), None,
                         Some(total), "", 0, {})
    /\ UNCHANGED <<expenses, incomes, events, sqlite_sequence>>

ExpenseService_category_totals_call(year) ==
    /\ \E totals \in ExpenseService_category_totals(year) :
          ret' = Outcome("category_totals", "expense", Some(<<year>>), None,
                         Some(totals), "", 0, {})
    /\ UNCHANGED <<expenses, incomes, events, sqlite_sequence>>

IncomeService_monthly_total_call(year, month) ==
    /\ \E total \in IncomeService_monthly_total(year, month) :
          ret' = Outcome("monthly_total", "income", Some(<<year, month>>), None,
                         Some(total), "", 0, {})
    /\ UNCHANGED <<expenses, incomes, events, sqlite_sequence>>

IncomeService_yearly_total_call(year) ==
    /\ \E total \in IncomeService_yearly_total(year) :
          ret' = Outcome("yearly_total", "income", Some(<<year>>), None,
                         Some(total), "", 0, {})
    /\ UNCHANGED <<expenses, incomes, events, sqlite_sequence>>

TaxService_get_tax_summary_call(year) ==
    /\ \E summary \in TaxService_get_tax_summary(year) :
          ret' = Outcome("get_tax_summary", "", Some(<<year>>), None,
                         Some(summary), "", 0, {})
    /\ UNCHANGED <<expenses, incomes, events, sqlite_sequence>>

(***************************************************************************)
(* CSV export: the rows csv.writer is given, the header row first          *)
(***************************************************************************)
\* The records written in the order received: sorted() left out.
sorted_by_date_unsorted(placed, items) == placed \o items

RECURSIVE sorted_by_date(_, _)
\* sorted(items, key=lambda x: x.<kind>_date): ascending and stable, each item
\* placed after the items already placed that are dated no later.
sorted_by_date(placed, items) ==
    IF Len(items) = 0 THEN placed
    ELSE LET x == items[1]
             keep == {k \in 1..Len(placed) :
                         \A j \in 1..k :
                             LET a == IF "expense_date" \in DOMAIN x
                                      THEN placed[j].expense_date ELSE placed[j].income_date
                                 b == IF "expense_date" \in DOMAIN x
                                      THEN x.expense_date ELSE x.income_date
                             IN  ~( \/ b.year < a.year
                                    \/ b.year = a.year /\ b.month < a.month
                                    \/ b.year = a.year /\ b.month = a.month /\ b.day < a.day)}
             n == Cardinality(keep)
         IN  sorted_by_date(SubSeq(placed, 1, n) \o <<x>> \o SubSeq(placed, n + 1, Len(placed)),
                            Tail(items))

\* The column names of the header row, each by the ASCII part of its label.
income_csv_header == <<"(Date)", "(Amount)", "(Client)", "(Job Type)", "(Notes)">>

income_csv_row(inc) ==
    <<isoformat(inc.income_date), inc.amount, inc.client, JobType[inc.job_type], inc.notes>>

export_income_csv(incomes_list) ==
    LET ordered == sorted_by_date(<<>>, incomes_list)
    IN  <<income_csv_header>> \o [k \in 1..Len(ordered) |-> income_csv_row(ordered[k])]

expense_csv_header ==
    <<"(Date)", "(Amount)", "(Category)", "(Payment Method)", "(Recurrence)", "(Notes)">>

expense_csv_row(exp) ==
    <<isoformat(exp.expense_date), exp.amount, ExpenseCategory[exp.category],
      PaymentMethod[exp.payment_method], RecurrenceType[exp.recurrence], exp.notes>>

export_expenses_csv(expenses_list) ==
    LET ordered == sorted_by_date(<<>>, expenses_list)
    IN  <<expense_csv_header>> \o [k \in 1..Len(ordered) |-> expense_csv_row(ordered[k])]

(***************************************************************************)
(* Behaviours                                                              *)
(***************************************************************************)
\* A record as insert or update receives it: with the identity the caller holds,
\* or none.
WithId(r, id) == [r EXCEPT !.id = id]

\* The identity the input of an insert carries: none, or 1, which no row has at
\* first and a row has later.
InsertIds == {None, Some(1)}

\* The identities a caller of update or delete holds for a table: every one the
\* table has assigned so far, still persisted or deleted since, and the next
\* one, which it never assigned.
HeldIds(table) == 1..(sqlite_sequence[table] + 1)

OptHeldIds(table) == {None} \cup {Some(i) : i \in HeldIds(table)}

\* What a caller holds that addresses no row of the table: no identity, or a
\* held identity whose row is gone or was never written.
Rowless(table, rows) == OptHeldIds(table) \ {Some(i) : i \in DOMAIN rows}

\* The records update is called with when they address no row: none of their
\* fields can reach the store, so one record of each kind stands for all (the
\* event is one whose link names an income).
RowlessExpenses == {e \in ExpenseInputs : e.category = "RENT"}

RowlessIncomes == {i \in IncomeInputs : i.job_type = "HOURLY"}

RowlessEvents == {e \in EventInputs : e.category = "DEADLINE"}

\* The months and years the aggregation operations are called for.
SummedMonths == {<<2025, 3>>}

SummedYears == {2025}

Next ==
    \/ \E e \in ExpenseInputs, id \in InsertIds : ExpenseRepository_insert(WithId(e, id))
    \/ \E e \in ExpenseInputs, id \in DOMAIN expenses : ExpenseRepository_update(WithId(e, Some(id)))
    \/ \E e \in RowlessExpenses, id \in Rowless("expenses", expenses) : ExpenseRepository_update(WithId(e, id))
    \/ \E e \in ExpenseReassigned : ExpenseRepository_insert(e)
    \/ \E e \in ExpenseReassigned, id \in DOMAIN expenses : ExpenseRepository_update(WithId(e, Some(id)))
    \/ \E id \in HeldIds("expenses") : ExpenseRepository_delete(id)
    \/ \E i \in IncomeInputs, id \in InsertIds : IncomeRepository_insert(WithId(i, id))
    \/ \E i \in IncomeInputs, id \in DOMAIN incomes : IncomeRepository_update(WithId(i, Some(id)))
    \/ \E i \in RowlessIncomes, id \in Rowless("incomes", incomes) : IncomeRepository_update(WithId(i, id))
    \/ \E i \in IncomeReassigned : IncomeRepository_insert(i)
    \/ \E i \in IncomeReassigned, id \in DOMAIN incomes : IncomeRepository_update(WithId(i, Some(id)))
    \/ \E id \in HeldIds("incomes") : IncomeRepository_delete(id)
    \/ \E e \in EventInputs, id \in InsertIds : EventRepository_insert(WithId(e, id))
    \/ \E e \in EventInputs, id \in DOMAIN events : EventRepository_update(WithId(e, Some(id)))
    \/ \E e \in RowlessEvents, id \in Rowless("events", events) : EventRepository_update(WithId(e, id))
    \/ \E id \in HeldIds("events") : EventRepository_delete(id)
    \/ \E m \in SummedMonths : ExpenseService_monthly_total_call(m[1], m[2])
    \/ \E y \in Years : ExpenseService_yearly_total_call(y)
    \/ \E y \in SummedYears : ExpenseService_category_totals_call(y)
    \/ \E m \in SummedMonths : IncomeService_monthly_total_call(m[1], m[2])
    \/ \E y \in SummedYears : IncomeService_yearly_total_call(y)
    \/ \E y \in SummedYears : TaxService_get_tax_summary_call(y)
    \/ \E e \in ExpenseArgs : Expense_new(e)
    \/ \E i \in IncomeArgs : Income_new(i)
    \/ \E e \in EventArgs : Event_new(e)

Spec == Init /\ [][Next]_vars

(***************************************************************************)
(* Properties                                                              *)
(***************************************************************************)
\* get_by_id of the repository of one record kind.
GetById(kind, id) ==
    CASE kind = "expense" -> ExpenseRepository_get_by_id(id)
      [] kind = "income"  -> IncomeRepository_get_by_id(id)
      [] kind = "event"   -> EventRepository_get_by_id(id)

\* The identities of the rows a kind's table holds.
RowIds(kind) ==
    CASE kind = "expense" -> DOMAIN expenses
      [] kind = "income"  -> DOMAIN incomes
      [] kind = "event"   -> DOMAIN events

\* The record passes its kind's construction invariants.
PostInit(kind, r) ==
    CASE kind = "expense" -> Expense_post_init(r)
      [] kind = "income"  -> Income_post_init(r)
      [] kind = "event"   -> Event_post_init(r)

Kinds == {"expense", "income", "event"}

\* C1: insert of a valid Expense or Income, whatever the store holds, succeeds,
\* and get_by_id on the identity it returns yields the input record with every
\* field as given and the identity, absent in the input, now a concrete value.
C1_InsertThenGet ==
    (ret.op = "insert" /\ ret.kind \in {"expense", "income"}
        /\ PostInit(ret.kind, Val(ret.arg)) /\ IsNone(Val(ret.arg).id))
    => /\ ret.raised = ""
       /\ ~IsNone(Val(ret.val).id)
       /\ GetById(ret.kind, Val(Val(ret.val).id))
              = Some([Val(ret.arg) EXCEPT !.id = Val(ret.val).id])

\* An insert into a table that already holds a row has returned its record.
C1_Witness ==
    /\ ret.op = "insert" /\ ret.kind = "expense" /\ ret.raised = ""
    /\ IsNone(Val(ret.arg).id)
    /\ Val(ret.arg).notes # "" /\ Val(ret.id) > 1
    /\ Cardinality(DOMAIN expenses) > 1

\* The update addressed a row the table holds, with a record that passes the
\* construction invariants.
UpdateOfPersisted ==
    /\ ret.op = "update"
    /\ ~IsNone(Val(ret.arg).id)
    /\ Val(Val(ret.arg).id) \in RowIds(ret.kind)
    /\ PostInit(ret.kind, Val(ret.arg))

\* C2 as stated: after update of a persisted record of any kind with any valid
\* replacement carrying its identity, get_by_id returns the replacement.
C2_UpdateThenGet_AsStated ==
    UpdateOfPersisted
    => /\ ret.raised = ""
       /\ GetById(ret.kind, Val(Val(ret.arg).id)) = Some(Val(ret.arg))

\* A time the store's HH:MM text can hold: absent, or hours and minutes only.
WholeMinutes(t) == IsNone(t) \/ Val(t).second = 0

\* The replacement is one the store accepts and can hold: an Expense or Income,
\* or an Event whose links are each absent or the identity of a persisted row
\* and whose times carry no seconds.
Storable(kind, r) ==
    kind = "event"
    => /\ IsNone(r.linked_income_id) \/ Val(r.linked_income_id) \in DOMAIN incomes
       /\ IsNone(r.linked_expense_id) \/ Val(r.linked_expense_id) \in DOMAIN expenses
       /\ WholeMinutes(r.start_time) /\ WholeMinutes(r.end_time)

\* C2 (amended): after update of a persisted record of any kind with a valid
\* replacement carrying its identity - for an Event, one whose links are absent
\* or name persisted rows and whose times have no seconds - get_by_id returns a
\* record equal to the replacement in every field, identity included.
C2_UpdateThenGet ==
    (UpdateOfPersisted /\ Storable(ret.kind, Val(ret.arg)))
    => /\ ret.raised = ""
       /\ GetById(ret.kind, Val(Val(ret.arg).id)) = Some(Val(ret.arg))

\* An update of an event has changed a row: some fields, the link to an
\* expense among them, show the new value.
C2_Witness ==
    /\ ret.op = "update" /\ ret.kind = "event" /\ ret.rowcount = 1
    /\ Val(ret.arg).linked_expense_id = Some(1)
    /\ Val(ret.arg).color # None

\* C3: for every kind, get_by_id(i) is absent exactly when the table holds no
\* row i - so after delete(i) and for an identity never assigned - and when the
\* row exists it returns, without a validation error, the record of identity i.
C3_GetByIdAbsent ==
    /\ \A kind \in Kinds, id \in 1..(MaxInserts + 1) :
          /\ IsNone(GetById(kind, id)) <=> id \notin RowIds(kind)
          /\ id \in RowIds(kind)
             => /\ Val(GetById(kind, id)).id = Some(id)
                /\ PostInit(kind, Val(GetById(kind, id)))
    /\ ret.op = "delete" => IsNone(GetById(ret.kind, Val(ret.id)))
    /\ \A id \in 1..(MaxInserts + 1) :
          /\ id > sqlite_sequence.expenses => IsNone(GetById("expense", id))
          /\ id > sqlite_sequence.incomes => IsNone(GetById("income", id))
          /\ id > sqlite_sequence.events => IsNone(GetById("event", id))

\* A delete has removed a row while other rows of its kind stay.
C3_Witness ==
    /\ ret.op = "delete" /\ ret.rowcount = 1
    /\ RowIds(ret.kind) # {}

\* The state is the one init_db or a call that wrote a row has left. Every store
\* the program reaches, it reaches in such a state; a call that writes no row
\* leaves the tables as they were, and what a query returns depends on the
\* tables alone, so what the list queries return is stated for these states.
StoreAsWritten == ret.op = "init_db" \/ ret.rowcount = 1

(***************************************************************************)
(* Aggregation properties.  The sums the claims speak of are taken over the *)
(* persisted records as get_by_id returns them, by the year and month of    *)
(* their dates.                                                             *)
(***************************************************************************)
\* The persisted records of a kind, as get_by_id returns them.
Persisted(kind) == {Val(GetById(kind, id)) : id \in RowIds(kind)}

\* The date of an Expense or Income record.
DateOf(r) == IF "expense_date" \in DOMAIN r THEN r.expense_date ELSE r.income_date

\* Those of the records that are dated in year y and one of the months.
DatedIn(records, y, months) ==
    {r \in records : DateOf(r).year = y /\ DateOf(r).month \in months}

RECURSIVE AmountOf(_)
\* The sum of amount over a set of records.
AmountOf(records) ==
    IF records = {} THEN 0
    ELSE LET r == CHOOSE x \in records : TRUE
         IN  r.amount + AmountOf(records \ {r})

\* The value of a call that can return only one.
Only(values) == CHOOSE v \in values : TRUE

\* C4: in every reachable store state, monthly_total(y, m) of the expense and
\* of the income service is the sum of amount over exactly the persisted
\* records of the kind dated in year y, month m.
C4_MonthlyTotal ==
    StoreAsWritten =>
    LET persisted_expenses == Persisted("expense")
        persisted_incomes == Persisted("income")
    IN  \A y \in Years, m \in Months :
            /\ ExpenseService_monthly_total(y, m)
                   = {AmountOf(DatedIn(persisted_expenses, y, {m}))}
            /\ IncomeService_monthly_total(y, m)
                   = {AmountOf(DatedIn(persisted_incomes, y, {m}))}

\* After an update has moved an expense to another month, two months of one
\* year each hold an expense.
C4_Witness ==
    /\ ret.op = "update" /\ ret.kind = "expense" /\ ret.rowcount = 1
    /\ ExpenseService_monthly_total(2025, 3) = {1000}
    /\ ExpenseService_monthly_total(2025, 10) = {500}

\* C5: in every reachable store state, yearly_total(y) of the expense and of
\* the income service is the sum of amount over exactly the persisted records
\* of the kind dated in year y; a record of another year adds nothing.
C5_YearlyTotal ==
    \A y \in Years :
        /\ ExpenseService_yearly_total(y) = {AmountOf(DatedIn(Persisted("expense"), y, Months))}
        /\ IncomeService_yearly_total(y) = {AmountOf(DatedIn(Persisted("income"), y, Months))}

\* Incomes of two years are persisted, one dated 31 December of the year before.
C5_Witness ==
    /\ IncomeService_yearly_total(2025) = {3000}
    /\ IncomeService_yearly_total(2024) = {500}

RECURSIVE SumOfMonths(_, _, _)
\* monthly_total(y, 1) + ... + monthly_total(y, m) of a kind.
SumOfMonths(kind, y, m) ==
    IF m = 0 THEN 0
    ELSE SumOfMonths(kind, y, m - 1)
         + (IF kind = "expense" THEN Only(ExpenseService_monthly_total(y, m))
            ELSE Only(IncomeService_monthly_total(y, m)))

\* C6: in every store state and for every year y, yearly_total(y) equals the
\* sum of monthly_total(y, m) over m = 1..12, in both services.
C6_YearIsSumOfMonths ==
    StoreAsWritten =>
    \A y \in Years :
        /\ ExpenseService_yearly_total(y) = {SumOfMonths("expense", y, 12)}
        /\ IncomeService_yearly_total(y) = {SumOfMonths("income", y, 12)}

\* One year's incomes fall in two months (March and June): its yearly total is
\* the sum of two non-zero monthly totals.
C6_Witness ==
    /\ IncomeService_monthly_total(2025, 3) = {500}
    /\ IncomeService_monthly_total(2025, 6) = {3000}
    /\ IncomeService_yearly_total(2025) = {3500}

\* Those of the expense records that have category c.
InCategory(records, c) == {r \in records : r.category = c}

RECURSIVE SumOfTotals(_)
SumOfTotals(totals) ==
    IF Len(totals) = 0 THEN 0 ELSE totals[1].total + SumOfTotals(Tail(totals))

\* C7: in every store state and for every year y, category_totals(y) has a key
\* for category c exactly when a persisted expense of y has category c, the
\* value is the sum of amount over those expenses, and the values sum to
\* yearly_total(y).
C7_CategoryTotals ==
    StoreAsWritten =>
    \A y \in Years :
        LET of_year == DatedIn(Persisted("expense"), y, Months)
        IN  \A totals \in ExpenseService_category_totals(y) :
                /\ {totals[k].category : k \in 1..Len(totals)}
                       = {r.category : r \in of_year}
                /\ \A k, l \in 1..Len(totals) :
                       totals[k].category = totals[l].category => k = l
                /\ \A k \in 1..Len(totals) :
                       totals[k].total = AmountOf(InCategory(of_year, totals[k].category))
                /\ ExpenseService_yearly_total(y) = {SumOfTotals(totals)}

\* One year's mapping has a single key and another year's a single key whose
\* value is 0, its only expense having amount 0.
C7_Witness ==
    /\ \E totals \in ExpenseService_category_totals(2025) : Len(totals) = 1
    /\ \E totals \in ExpenseService_category_totals(2024) :
          Len(totals) = 1 /\ totals[1].total = 0

\* C8: for every summary get_tax_summary(year) can return, net_income is the
\* income yearly total minus the expense yearly total of that year, negative
\* when expenses exceed income.
C8_NetIncome ==
    StoreAsWritten =>
    \A y \in Years :
        LET gross == AmountOf(DatedIn(Persisted("income"), y, Months))
            spent == AmountOf(DatedIn(Persisted("expense"), y, Months))
        IN  \A summary \in TaxService_get_tax_summary(y) :
                /\ summary.gross_income = gross
                /\ summary.total_expenses = spent
                /\ net_income(summary) = gross - spent

\* A year's expenses exceed its income: the summary's net income is negative.
C8_Witness ==
    \E summary \in TaxService_get_tax_summary(2025) :
        /\ summary.gross_income = 500
        /\ summary.total_expenses = 1000
        /\ net_income(summary) < 0

\* C9: for every store state and year, the expense_breakdown of every summary
\* get_tax_summary(year) can return is in non-increasing order of total.
C9_BreakdownDescending ==
    StoreAsWritten =>
    \A y \in Years : \A summary \in TaxService_get_tax_summary(y) :
        \A k \in 1..(Len(summary.expense_breakdown) - 1) :
            summary.expense_breakdown[k].total >= summary.expense_breakdown[k + 1].total

\* category_totals lists the smaller total first, and the summary the larger.
C9_Witness ==
    /\ \E totals \in ExpenseService_category_totals(2025) :
          Len(totals) = 2 /\ totals[1].total < totals[2].total
    /\ \E summary \in TaxService_get_tax_summary(2025) :
          /\ Len(summary.expense_breakdown) = 2
          /\ summary.expense_breakdown[1].total > summary.expense_breakdown[2].total

(***************************************************************************)
(* Links of events                                                         *)
(***************************************************************************)
\* The event as it is after the income or expense of identity id is deleted.
Unlinked(e, kind, id) ==
    [e EXCEPT !.linked_income_id =
                  IF kind = "income" /\ @ = Some(id) THEN None ELSE @,
              !.linked_expense_id =
                  IF kind = "expense" /\ @ = Some(id) THEN None ELSE @]

\* The step is a delete of a persisted income or expense.
DeletesLinkable ==
    /\ ret'.op = "delete" /\ ret'.kind \in {"income", "expense"}
    /\ Val(ret'.id) \in RowIds(ret'.kind)

store == <<expenses, incomes, events, sqlite_sequence>>

\* C11: for every record kind, update of a record whose identity is absent
\* raises ValueError, and no table and no counter of the store changes.
C11_UpdateWithoutId ==
    [][(ret'.op = "update" /\ IsNone(Val(ret'.arg).id))
       => /\ ret'.raised = "ValueError"
          /\ ret'.rowcount = 0
          /\ store' = store]_vars

\* An update without identity was refused while its table holds rows.
C11_Witness ==
    /\ ret.op = "update" /\ ret.raised = "ValueError"
    /\ IsNone(Val(ret.arg).id)
    /\ RowIds(ret.kind) # {}

\* The step is an update or a delete that addresses an identity its table does
\* not hold.
AddressesAbsent ==
    /\ ret'.op \in {"update", "delete"}
    /\ ~IsNone(ret'.id)
    /\ Val(ret'.id) \notin RowIds(ret'.kind)

\* C12: for every record kind, update of a record whose identity is not in the
\* store and delete of an identity not in the store raise no error and leave
\* every table as it was: no row is created, changed or removed.
C12_AbsentIdentityNoOp ==
    [][AddressesAbsent
       => /\ ret'.raised = ""
          /\ ret'.rowcount = 0
          /\ store' = store]_vars

\* An event update that addressed no row was accepted although its link names
\* no persisted income, while the event table holds another row.
C12_Witness ==
    /\ ret.op = "update" /\ ret.kind = "event" /\ ret.raised = ""
    /\ ret.rowcount = 0 /\ ~IsNone(ret.id)
    /\ Val(ret.arg).linked_income_id = Some(1) /\ incomes = <<>>
    /\ events # <<>>

\* Each link of the record, if it has links, is absent or names a persisted row:
\* the one thing, in a record that passed construction, the store's constraints
\* can refuse.
LinksResolve(kind, r) ==
    kind = "event"
    => /\ IsNone(r.linked_income_id) \/ Val(r.linked_income_id) \in DOMAIN incomes
       /\ IsNone(r.linked_expense_id) \/ Val(r.linked_expense_id) \in DOMAIN expenses

\* The store's constraints accept the record: its links resolve and its amount,
\* if it has one, is not below 0.
WithinConstraints(kind, r) ==
    /\ LinksResolve(kind, r)
    /\ kind \in {"expense", "income"} => r.amount >= 0

\* C13: whatever identity the input of insert carries (none, an unused one, or
\* that of an existing row), the identity decides nothing: insert fails only
\* when a constraint of the store refuses the record, and otherwise it adds
\* exactly one row, under an identity no row had before the call, returns the
\* input with that identity, and leaves every existing row - the one with the
\* input's identity included - as it was.
C13_InsertIgnoresIdentity ==
    [][ret'.op = "insert"
       => /\ ret'.raised = "" <=> WithinConstraints(ret'.kind, Val(ret'.arg))
          /\ ret'.raised # "" => store' = store
          /\ ret'.raised = ""
             => \A kind \in Kinds :
                   IF kind = ret'.kind
                   THEN /\ Val(ret'.id) \notin RowIds(kind)
                        /\ RowIds(kind)' = RowIds(kind) \cup {Val(ret'.id)}
                        /\ \A id \in RowIds(kind) : GetById(kind, id)' = GetById(kind, id)
                        /\ ret'.val = Some([Val(ret'.arg) EXCEPT !.id = ret'.id])
                        /\ \A id \in Ids :
                              ret'.id = Some(id) => Val(GetById(kind, id)').id = ret'.id
                   ELSE /\ RowIds(kind)' = RowIds(kind)
                        /\ \A id \in RowIds(kind) : GetById(kind, id)' = GetById(kind, id)]_vars

\* An insert whose input carried the identity of an existing row has added a
\* second row, and the existing row is still there.
C13_Witness ==
    /\ ret.op = "insert" /\ ret.raised = ""
    /\ Val(ret.arg).id = Some(1)
    /\ ret.id = Some(2)
    /\ {1, 2} \subseteq RowIds(ret.kind)

\* get_all of the repository of one record kind: the lists it can return.
GetAll(kind) ==
    CASE kind = "expense" -> ExpenseRepository_get_all
      [] kind = "income"  -> IncomeRepository_get_all
      [] kind = "event"   -> EventRepository_get_all

\* Every row is returned under the identity that addresses it, by get_by_id and
\* by get_all, and no two records of a kind share an identity: get_all lists
\* each identity of the table once.
IdentitiesUnique ==
    \A kind \in Kinds :
        /\ \A id \in RowIds(kind) : Val(GetById(kind, id)).id = Some(id)
        /\ \A list \in GetAll(kind) :
              /\ \A k, l \in 1..Len(list) : list[k].id = list[l].id => k = l
              /\ {list[k].id : k \in 1..Len(list)} = {Some(id) : id \in RowIds(kind)}

\* An update leaves the set of identities of every table as it was.
IdentityStable ==
    ret'.op = "update" => \A kind \in Kinds : RowIds(kind)' = RowIds(kind)

\* C14: across any sequence of inserts, updates and deletes, a row is returned
\* under the one identity that addresses it for as long as it exists, no two
\* rows of a kind share an identity, and update never alters the set of
\* identities of a table.
C14_IdentityStable ==
    /\ [](StoreAsWritten => IdentitiesUnique)
    /\ [][IdentityStable]_vars

\* An update has rewritten one of two rows of a table; both identities remain.
C14_Witness ==
    /\ ret.op = "update" /\ ret.rowcount = 1
    /\ RowIds(ret.kind) = {1, 2}

(***************************************************************************)
(* Order of list results                                                   *)
(***************************************************************************)
\* The dates get_by_date is asked for.
QueryDates == {Date(2024, 12, 31), Date(2025, 3, 1), Date(2025, 3, 2)}

\* The months get_by_month is asked for, as <<year, month>>.
QueryMonths == {<<2024, 12>>, <<2025, 3>>, <<2025, 10>>}

\* The ranges get_by_date_range is asked for, as <<start, end>>: one day; both
\* bounds on a record's date; ending the day before and starting the day after
\* a record's date; start after end.
QueryRanges ==
    { <<Date(2025, 3, 1), Date(2025, 3, 1)>>,
      <<Date(2024, 12, 31), Date(2025, 3, 1)>>,
      <<Date(2024, 12, 31), Date(2025, 2, 28)>>,
      <<Date(2025, 3, 2), Date(2025, 10, 15)>>,
      <<Date(2025, 3, 2), Date(2025, 2, 28)>> }

\* a is an earlier date than b.
DateLess(a, b) ==
    \/ a.year < b.year
    \/ a.year = b.year /\ a.month < b.month
    \/ a.year = b.year /\ a.month = b.month /\ a.day < b.day

\* a starts earlier in the day than b; an event with no start time is earlier
\* than every timed one.
StartsEarlier(a, b) ==
    /\ ~IsNone(b.start_time)
    /\ IsNone(a.start_time) \/ TimeLess(Val(a.start_time), Val(b.start_time))

\* Ascending by date and, within one date, by start time, untimed events first.
AscendingEvents(list) ==
    \A k, l \in 1..Len(list) :
        k < l => /\ ~DateLess(list[l].event_date, list[k].event_date)
                 /\ list[k].event_date = list[l].event_date
                    => ~StartsEarlier(list[l], list[k])

\* Descending by date and, within one date, ascending by start time, untimed
\* events first.
LatestDayFirstEvents(list) ==
    \A k, l \in 1..Len(list) :
        k < l => /\ ~DateLess(list[k].event_date, list[l].event_date)
                 /\ list[k].event_date = list[l].event_date
                    => ~StartsEarlier(list[l], list[k])

\* The lists the three filtering event queries can return, over the dates,
\* months and ranges asked for.
EventFilterResults ==
    UNION ({EventRepository_get_by_date(d) : d \in QueryDates}
           \cup {EventRepository_get_by_month(m[1], m[2]) : m \in QueryMonths}
           \cup {EventRepository_get_by_date_range(r[1], r[2]) : r \in QueryRanges})

NonIncreasingByDate(list) ==
    \A k, l \in 1..Len(list) : k < l => ~DateLess(DateOf(list[k]), DateOf(list[l]))

\* The lists the list queries of the expense and income repositories can
\* return, over the months, years and ranges asked for.
LedgerListResults ==
    UNION ({ExpenseRepository_get_by_month(m[1], m[2]) : m \in QueryMonths}
           \cup {ExpenseRepository_get_by_year(y) : y \in Years}
           \cup {ExpenseRepository_get_by_date_range(r[1], r[2]) : r \in QueryRanges}
           \cup {IncomeRepository_get_by_month(m[1], m[2]) : m \in QueryMonths}
           \cup {IncomeRepository_get_by_year(y) : y \in Years}
           \cup {IncomeRepository_get_by_date_range(r[1], r[2]) : r \in QueryRanges})
    \cup ExpenseRepository_get_all \cup IncomeRepository_get_all

\* C16: every list that get_by_month, get_by_year, get_by_date_range or get_all
\* of the expense or income repository returns is in non-increasing date order,
\* whatever the order in which the rows were inserted or updated.
C16_LedgerOrder ==
    StoreAsWritten => \A list \in LedgerListResults : NonIncreasingByDate(list)

\* The row inserted first is dated later than the row inserted second, after an
\* update changed a date: get_all lists identity 1 before identity 2, and the
\* year query does the same.
C16_Witness ==
    /\ ret.op = "update" /\ ret.kind = "expense" /\ ret.rowcount = 1
    /\ \E list \in ExpenseRepository_get_all :
          /\ Len(list) = 2 /\ list[1].id = Some(1) /\ list[2].id = Some(2)
          /\ DateLess(DateOf(list[2]), DateOf(list[1]))
    /\ \E list \in ExpenseRepository_get_by_year(2025) : Len(list) = 2

(***************************************************************************)
(* Validation at construction                                              *)
(***************************************************************************)
\* The record violates the domain invariant of its kind.
ViolatesInvariant(kind, r) ==
    CASE kind = "expense" -> r.amount < 0
      [] kind = "income"  -> r.amount < 0 \/ \A k \in 1..Len(r.client) : r.client[k] = " "
      [] kind = "event"   ->
            \/ \A k \in 1..Len(r.title) : r.title[k] = " "
            \/ /\ r.start_time # None /\ r.end_time # None
               /\ TimeLess(Val(r.end_time), Val(r.start_time))

\* C17: constructing a record fails with ValueError exactly when the record
\* violates its kind's invariant (negative amount; blank client; blank title;
\* both times present and end before start) and otherwise yields the record,
\* so amount 0 and an end time equal to the start time are accepted; either
\* way no table and no counter of the store changes.
C17_ValidationAtConstruction ==
    [][ret'.op = "new"
       => /\ store' = store
          /\ ret'.raised = "ValueError" <=> ViolatesInvariant(ret'.kind, Val(ret'.arg))
          /\ ret'.raised # "ValueError" => ret'.raised = "" /\ ret'.val = ret'.arg
          /\ (ret'.kind = "expense" /\ Val(ret'.arg).amount = 0) => ret'.raised = ""
          /\ (ret'.kind = "income" /\ Val(ret'.arg).amount = 0
                  /\ ~IsBlank(Val(ret'.arg).client))
             => ret'.raised = ""
          /\ (ret'.kind = "event" /\ ~IsBlank(Val(ret'.arg).title)
                  /\ Val(ret'.arg).start_time = Val(ret'.arg).end_time)
             => ret'.raised = ""]_vars

\* The construction of an event that ends one second before it starts was
\* refused while the store holds rows.
C17_Witness ==
    /\ ret.op = "new" /\ ret.kind = "event" /\ ret.raised = "ValueError"
    /\ Val(ret.arg).start_time = Some(Time(14, 0, 0))
    /\ Val(ret.arg).end_time = Some(Time(13, 59, 59))
    /\ Inserted > 0

(***************************************************************************)
(* CSV export                                                              *)
(***************************************************************************)
\* Every list of distinct members of S, in every order.
ListsOf(S) ==
    UNION {{f \in [1..Cardinality(T) -> T] :
               \A i, j \in 1..Cardinality(T) : f[i] = f[j] => i = j} : T \in SUBSET S}

\* rows is a header row followed by data rows in ascending order of their date
\* column, and every row of wanted occurs among the data rows as many times as
\* in wanted.
WellFormedExport(rows, header, wanted) ==
    /\ Len(rows) = 1 + Len(wanted)
    /\ rows[1] = header
    /\ \A k, l \in 2..Len(rows) :
          k < l => ~DateLess(fromisoformat(rows[l][1]), fromisoformat(rows[k][1]))
    /\ \A w \in 1..Len(wanted) :
          Cardinality({k \in 2..Len(rows) : rows[k] = wanted[w]})
              = Cardinality({k \in 1..Len(wanted) : wanted[k] = wanted[w]})

\* C18: for every list of the persisted incomes or expenses, in whatever order,
\* the exported rows are the header row followed by exactly one row per record
\* of the list, the data rows in ascending date order.
C18_ExportCsv ==
    StoreAsWritten
    => /\ \A list \in ListsOf(Persisted("income")) :
             WellFormedExport(export_income_csv(list), income_csv_header,
                              [k \in 1..Len(list) |-> income_csv_row(list[k])])
       /\ \A list \in ListsOf(Persisted("expense")) :
             WellFormedExport(export_expenses_csv(list), expense_csv_header,
                              [k \in 1..Len(list) |-> expense_csv_row(list[k])])

\* The incomes of two dates, handed over latest first as get_all returns them,
\* are exported earliest first.
C18_Witness ==
    \E list \in IncomeRepository_get_all :
        /\ Len(list) = 2
        /\ DateLess(list[2].income_date, list[1].income_date)
        /\ export_income_csv(list)[2] = income_csv_row(list[2])
        /\ export_income_csv(list)[3] = income_csv_row(list[1])

(***************************************************************************)
(* Client names                                                            *)
(***************************************************************************)
\* The letter in lower case; any other character as it is.
Fold(c) ==
    IF Ord(c) >= Ord("A") /\ Ord(c) <= Ord("Z")
    THEN Alphabet[Ord(c) + (Ord("a") - Ord("A"))]
    ELSE c

\* a comes before b in alphabetical order: letter by letter, whatever the case.
AlphabeticallyBefore(a, b) ==
    StrLess([k \in 1..Len(a) |-> Fold(a[k])], [k \in 1..Len(b) |-> Fold(b[k])])

\* The list holds each client name of a persisted income exactly once and no
\* other name.
EachClientOnce(list) ==
    /\ {list[k] : k \in 1..Len(list)} = {r.client : r \in Persisted("income")}
    /\ \A k, l \in 1..Len(list) : list[k] = list[l] => k = l

\* C19 as stated: get_distinct_clients returns each client name of a persisted
\* income exactly once, and no other name, in ascending alphabetical order.
C19_DistinctClients_AsStated ==
    LET list == IncomeRepository_get_distinct_clients
    IN  /\ EachClientOnce(list)
        /\ \A k, l \in 1..Len(list) : k < l => ~AlphabeticallyBefore(list[l], list[k])

\* C19 (amended): get_distinct_clients returns each client name of a persisted
\* income exactly once, and no other name, in ascending order of the names
\* compared character by character by code point, so that a name starting with
\* an upper-case letter comes before every name starting with a lower-case one.
C19_DistinctClients ==
    LET list == IncomeRepository_get_distinct_clients
    IN  /\ EachClientOnce(list)
        /\ \A k, l \in 1..Len(list) : k < l => StrLess(list[k], list[l])
        /\ \A k, l \in 1..Len(list) :
              (Ord(list[k][1]) <= Ord("Z") /\ Ord(list[l][1]) >= Ord("a")) => k < l

\* Incomes of "acme" and then of "Bravo" are persisted: the names come back as
\* Bravo, acme.
C19_Witness ==
    /\ DOMAIN incomes = {1, 2}
    /\ incomes[1].client = <<"a", "c", "m", "e">>
    /\ IncomeRepository_get_distinct_clients = <<<<"B", "r", "a", "v", "o">>, <<"a", "c", "m", "e">>>>

(***************************************************************************)
(* Date ranges                                                             *)
(***************************************************************************)
\* get_by_date_range of the repository of one record kind.
GetByDateRange(kind, start, end) ==
    CASE kind = "expense" -> ExpenseRepository_get_by_date_range(start, end)
      [] kind = "income"  -> IncomeRepository_get_by_date_range(start, end)
      [] kind = "event"   -> EventRepository_get_by_date_range(start, end)

\* The date of a record of any kind.
RecordDate(r) == IF "event_date" \in DOMAIN r THEN r.event_date ELSE DateOf(r)

\* Those of the records that are dated from start to end, both included.
DatedWithin(records, start, end) ==
    {r \in records : ~DateLess(RecordDate(r), start) /\ ~DateLess(end, RecordDate(r))}

\* C20: for every record kind, every list get_by_date_range(start, end) can
\* return holds exactly the persisted records dated d with start <= d <= end,
\* each once, and the result is the empty list when start is after end.
C20_DateRangeInclusive ==
    StoreAsWritten
    => \A kind \in Kinds :
          LET persisted == Persisted(kind)
          IN  \A range \in QueryRanges :
                  LET lists == GetByDateRange(kind, range[1], range[2])
                      within == DatedWithin(persisted, range[1], range[2])
                  IN  /\ \A list \in lists :
                            /\ {list[k] : k \in 1..Len(list)} = within
                            /\ Len(list) = Cardinality(within)
                      /\ lists # {}
                      /\ DateLess(range[2], range[1]) => lists = {<<>>}

\* An expense dated 1 March 2025 is persisted: the range of that one day returns
\* it, as does a range that ends or starts on it, the ranges that end the day
\* before or start the day after do not, and neither does the range from the
\* day after back to the day before.
C20_Witness ==
    /\ \E id \in DOMAIN expenses : expenses[id].expense_date = isoformat(Date(2025, 3, 1))
    /\ \E id \in DOMAIN expenses : expenses[id].expense_date = isoformat(Date(2024, 12, 31))
    /\ \A list \in ExpenseRepository_get_by_date_range(Date(2025, 3, 1), Date(2025, 3, 1)) :
          Len(list) = 1
    /\ \A list \in ExpenseRepository_get_by_date_range(Date(2024, 12, 31), Date(2025, 3, 1)) :
          Len(list) = 2
    /\ \A list \in ExpenseRepository_get_by_date_range(Date(2024, 12, 31), Date(2025, 2, 28)) :
          Len(list) = 1
    /\ \A list \in ExpenseRepository_get_by_date_range(Date(2025, 3, 2), Date(2025, 10, 15)) :
          Len(list) = 0
    /\ ExpenseRepository_get_by_date_range(Date(2025, 3, 2), Date(2025, 2, 28)) = {<<>>}

(***************************************************************************)
(* Queries that match nothing                                              *)
(***************************************************************************)
\* Those of the event records that are dated in year y, month m.
EventsDatedIn(records, y, m) ==
    {r \in records : r.event_date.year = y /\ r.event_date.month = m}

\* C21: a query that matches no persisted record returns the empty result and
\* raises nothing: the list queries return the empty list, monthly_total and
\* yearly_total return 0, category_totals returns the empty mapping, and
\* get_tax_summary of a year that holds neither income nor expense returns
\* gross_income 0, total_expenses 0, net_income 0 and an empty breakdown,
\* whatever the other years hold.
C21_EmptyResults ==
    StoreAsWritten
    => LET expense_records == Persisted("expense")
           income_records == Persisted("income")
           event_records == Persisted("event")
       IN  /\ \A m \in QueryMonths :
                 /\ DatedIn(expense_records, m[1], {m[2]}) = {}
                    => /\ ExpenseRepository_get_by_month(m[1], m[2]) = {<<>>}
                       /\ ExpenseService_monthly_total(m[1], m[2]) = {0}
                 /\ DatedIn(income_records, m[1], {m[2]}) = {}
                    => /\ IncomeRepository_get_by_month(m[1], m[2]) = {<<>>}
                       /\ IncomeService_monthly_total(m[1], m[2]) = {0}
                 /\ EventsDatedIn(event_records, m[1], m[2]) = {}
                    => EventRepository_get_by_month(m[1], m[2]) = {<<>>}
           /\ \A y \in Years :
                 /\ DatedIn(expense_records, y, Months) = {}
                    => /\ ExpenseRepository_get_by_year(y) = {<<>>}
                       /\ ExpenseService_yearly_total(y) = {0}
                       /\ ExpenseService_category_totals(y) = {<<>>}
                 /\ DatedIn(income_records, y, Months) = {}
                    => /\ IncomeRepository_get_by_year(y) = {<<>>}
                       /\ IncomeService_yearly_total(y) = {0}
                 /\ DatedIn(expense_records \cup income_records, y, Months) = {}
                    => /\ TaxService_get_tax_summary(y) = {TaxSummary(y, 0, 0, <<>>)}
                       /\ \A summary \in TaxService_get_tax_summary(y) :
                             net_income(summary) = 0
           /\ \A range \in QueryRanges, kind \in Kinds :
                 DatedWithin(Persisted(kind), range[1], range[2]) = {}
                 => GetByDateRange(kind, range[1], range[2]) = {<<>>}
           /\ \A d \in QueryDates :
                 {r \in event_records : r.event_date = d} = {}
                 => EventRepository_get_by_date(d) = {<<>>}
           /\ \A kind \in Kinds : RowIds(kind) = {} => GetAll(kind) = {<<>>}
           /\ incomes = <<>> => IncomeRepository_get_distinct_clients = <<>>

\* An income and an expense of 2024 are persisted and nothing of 2025: the
\* summary of 2025 is all zero and its breakdown empty, while the income total
\* of 2024 is not zero.
C21_Witness ==
    /\ IncomeService_yearly_total(2024) = {500}
    /\ \E totals \in ExpenseService_category_totals(2024) : Len(totals) = 1
    /\ TaxService_get_tax_summary(2025) = {TaxSummary(2025, 0, 0, <<>>)}

(***************************************************************************)
(* Event times                                                             *)
(***************************************************************************)
\* The last call inserted an event.
EventInserted == ret.op = "insert" /\ ret.kind = "event" /\ ret.raised = ""

\* The time cut to the minute: the same hour and minute, second 0.
ToTheMinute(t) == IF IsNone(t) THEN None ELSE Some(Time(Val(t).hour, Val(t).minute, 0))

\* C22 as stated: after insert of a valid event, get_by_id returns the
\* start_time and end_time the inserted event carried, a present time equal to
\* the one given and an absent time absent.
C22_EventTimes_AsStated ==
    EventInserted
    => LET fetched == Val(GetById("event", Val(ret.id)))
       IN  /\ fetched.start_time = Val(ret.arg).start_time
           /\ fetched.end_time = Val(ret.arg).end_time

\* C22 (amended): after insert of a valid event, get_by_id returns the
\* start_time and end_time the inserted event carried, cut to the minute: a
\* present time comes back with the hour and minute given and second 0, hence
\* equal to the one given when that has no seconds, and an absent time comes
\* back absent.
C22_EventTimes ==
    EventInserted
    => LET fetched == Val(GetById("event", Val(ret.id)))
           given == Val(ret.arg)
       IN  /\ fetched.start_time = ToTheMinute(given.start_time)
           /\ fetched.end_time = ToTheMinute(given.end_time)
           /\ WholeMinutes(given.start_time) => fetched.start_time = given.start_time
           /\ WholeMinutes(given.end_time) => fetched.end_time = given.end_time
           /\ IsNone(given.start_time) <=> IsNone(fetched.start_time)
           /\ IsNone(given.end_time) <=> IsNone(fetched.end_time)

\* An event from 09:00:30 to 09:00:45 was inserted: get_by_id returns it from
\* 09:00 to 09:00.
C22_Witness ==
    /\ EventInserted
    /\ Val(ret.arg).start_time = Some(Time(9, 0, 30))
    /\ Val(ret.arg).end_time = Some(Time(9, 0, 45))
    /\ Val(GetById("event", Val(ret.id))).start_time = Some(Time(9, 0, 0))
    /\ Val(GetById("event", Val(ret.id))).end_time = Some(Time(9, 0, 0))

(***************************************************************************)
(* Rebuilding records from rows                                            *)
(***************************************************************************)
\* The records the reads of a kind rebuild: the one get_by_id returns for each
\* identity of the table and those of every list get_all can return.
Rebuilt(kind) ==
    Persisted(kind) \cup UNION {{list[k] : k \in 1..Len(list)} : list \in GetAll(kind)}

Refused ==
    /\ \/ ret'.op = "insert"
       \/ ret'.op = "update" /\ ~IsNone(ret'.id) /\ Val(ret'.id) \in RowIds(ret'.kind)
    /\ ~WithinConstraints(ret'.kind, Val(ret'.arg))

\* The step is a write the store has no reason to refuse: an insert, or an
\* update or delete of a persisted row.
Writes ==
    /\ \/ ret'.op = "insert"
       \/ /\ ret'.op \in {"update", "delete"}
          /\ ~IsNone(ret'.id) /\ Val(ret'.id) \in RowIds(ret'.kind)
    /\ ~Refused

\* C24: an insert or update the store refuses for a constraint (CHECK on the
\* amount, foreign key of an event link) raises the store's IntegrityError and
\* nothing else, returns nothing, and leaves every table and counter as before
\* the call; no other insert or update raises it; and the write that follows a
\* refused call on the connection succeeds as it would have without it.
C24_ConstraintViolation ==
    [][/\ ret'.op \in {"insert", "update"}
          => (Refused <=> ret'.raised = "IntegrityError")
       /\ Refused
          => /\ ret'.raised = "IntegrityError"
             /\ ret'.rowcount = 0 /\ IsNone(ret'.val) /\ ret'.nulled = {}
             /\ store' = store
       /\ (ret.raised = "IntegrityError" /\ Writes)
          => ret'.raised = "" /\ ret'.rowcount = 1]_vars

\* An update that would have set the amount of a persisted expense below 0 was
\* refused: the row is still there, its amount not below 0.
C24_Witness ==
    /\ ret.op = "update" /\ ret.kind = "expense" /\ ret.raised = "IntegrityError"
    /\ Val(ret.arg).amount < 0
    /\ Val(ret.id) \in DOMAIN expenses
    /\ expenses[Val(ret.id)].amount >= 0

(***************************************************************************)
(* Aggregation calls                                                       *)
(***************************************************************************)
AggregationOps == {"monthly_total", "yearly_total", "category_totals", "get_tax_summary"}

\* The values the aggregation operation op of the service of kind can return
\* for the arguments args on the store as it is.
Results(op, kind, args) ==
    CASE op = "monthly_total" /\ kind = "expense" ->
             ExpenseService_monthly_total(args[1], args[2])
      [] op = "monthly_total" /\ kind = "income" ->
             IncomeService_monthly_total(args[1], args[2])
      [] op = "yearly_total" /\ kind = "expense" -> ExpenseService_yearly_total(args[1])
      [] op = "yearly_total" /\ kind = "income" -> IncomeService_yearly_total(args[1])
      [] op = "category_totals" -> ExpenseService_category_totals(args[1])
      [] op = "get_tax_summary" -> TaxService_get_tax_summary(args[1])

\* The mapping as the set of its items: two dicts are equal when these are.
Items(totals) == {totals[k] : k \in 1..Len(totals)}

\* Two results of one aggregation operation are equal: the totals as numbers,
\* the mappings as dicts, the summaries field by field, their breakdowns
\* entry by entry up to the order of entries of equal total (which follows the
\* order in which the store returns rows of one date).
EqualResults(op, a, b) ==
    CASE op \in {"monthly_total", "yearly_total"} -> a = b
      [] op = "category_totals" -> Items(a) = Items(b) /\ Len(a) = Len(b)
      [] op = "get_tax_summary" ->
             /\ a.year = b.year
             /\ a.gross_income = b.gross_income
             /\ a.total_expenses = b.total_expenses
             /\ Len(a.expense_breakdown) = Len(b.expense_breakdown)
             /\ Items(a.expense_breakdown) = Items(b.expense_breakdown)
             /\ \A k \in 1..Len(a.expense_breakdown) :
                   a.expense_breakdown[k].total = b.expense_breakdown[k].total

\* Every aggregation operation has, for given arguments, one result on the
\* store as it is.
ResultsDetermined ==
    /\ \A m \in QueryMonths, kind \in {"expense", "income"} :
          Cardinality(Results("monthly_total", kind, m)) = 1
    /\ \A y \in Years, kind \in {"expense", "income"} :
          Cardinality(Results("yearly_total", kind, <<y>>)) = 1
    /\ \A y \in Years, op \in {"category_totals", "get_tax_summary"} :
          /\ Results(op, "", <<y>>) # {}
          /\ \A a, b \in Results(op, "", <<y>>) : EqualResults(op, a, b)

\* An aggregation call leaves every table and counter as it was and returns a
\* value of its operation on the store as it is; called twice running with the
\* same arguments, it returns equal results.
AggregationStep ==
    ret'.op \in AggregationOps
    => /\ store' = store
       /\ ret'.raised = ""
       /\ Val(ret'.val) \in Results(ret'.op, ret'.kind, Val(ret'.arg))
       /\ (ret.op = ret'.op /\ ret.kind = ret'.kind /\ ret.arg = ret'.arg)
          => EqualResults(ret'.op, Val(ret.val), Val(ret'.val))

OneEntryPerKey(breakdown, totals) ==
    /\ \A k \in 1..Len(totals) :
          Cardinality({i \in 1..Len(breakdown) :
                          breakdown[i].category = ExpenseCategory[totals[k].category]}) = 1
    /\ \A i \in 1..Len(breakdown) :
          \E k \in 1..Len(totals) :
              /\ breakdown[i].category = ExpenseCategory[totals[k].category]
              /\ breakdown[i].category_label = category_label[totals[k].category]
              /\ breakdown[i].total = totals[k].total

\* C26: for every store state and year, the expense_breakdown of every summary
\* get_tax_summary(year) can return has exactly one entry per category key of
\* category_totals(year) and no other entry, each with that category's value
\* in category_totals(year), and the totals of the entries sum to the
\* summary's total_expenses.
C26_BreakdownMatchesTotals ==
    StoreAsWritten
    => \A y \in Years :
           \A summary \in TaxService_get_tax_summary(y) :
               /\ \A totals \in ExpenseService_category_totals(y) :
                     OneEntryPerKey(summary.expense_breakdown, totals)
               /\ SumOfTotals(summary.expense_breakdown) = summary.total_expenses

\* Two categories of the year with the same total: the breakdown has an entry
\* for each, and they sum to the year's 2000.
C26_Witness ==
    \E summary \in TaxService_get_tax_summary(2025) :
        /\ Len(summary.expense_breakdown) = 2
        /\ summary.expense_breakdown[1].total = 1000
        /\ summary.expense_breakdown[2].total = 1000
        /\ summary.total_expenses = 2000

(***************************************************************************)
(* Order of breakdown entries of equal total                               *)
(***************************************************************************)
\* The place of the first record of category c in the list.
FirstOccurrence(list, c) ==
    CHOOSE k \in 1..Len(list) :
        /\ list[k].category = c
        /\ \A j \in 1..(k - 1) : list[j].category # c

\* The keys of the mapping are the categories of the list, in the order in
\* which each first occurs in it.
KeysInFirstOccurrenceOrder(totals, list) ==
    /\ {totals[k].category : k \in 1..Len(totals)} = {list[k].category : k \in 1..Len(list)}
    /\ \A i, j \in 1..Len(totals) :
          i < j => FirstOccurrence(list, totals[i].category)
                       < FirstOccurrence(list, totals[j].category)

\* The place of the key whose stored value is category in the mapping.
KeyPlace(totals, category) ==
    CHOOSE k \in 1..Len(totals) : ExpenseCategory[totals[k].category] = category

\* Entries of equal total stand in the breakdown in the order of their keys in
\* the mapping.
TiesInMappingOrder(breakdown, totals) ==
    \A i, j \in 1..Len(breakdown) :
        (i < j /\ breakdown[i].total = breakdown[j].total)
        => KeyPlace(totals, breakdown[i].category) < KeyPlace(totals, breakdown[j].category)

\* C27: when two categories have equal yearly totals, their relative order in
\* expense_breakdown is their order in the category_totals mapping, which is
\* the order in which the categories first occur in the year's expenses listed
\* most recent date first.
C27_TieOrder ==
    StoreAsWritten
    => \A y \in Years :
           /\ \A summary \in TaxService_get_tax_summary(y) :
                 \E totals \in ExpenseService_category_totals(y) :
                     /\ OneEntryPerKey(summary.expense_breakdown, totals)
                     /\ TiesInMappingOrder(summary.expense_breakdown, totals)
           /\ \A totals \in ExpenseService_category_totals(y) :
                 \E list \in ExpenseRepository_get_by_year(y) :
                     /\ NonIncreasingByDate(list)
                     /\ KeysInFirstOccurrenceOrder(totals, list)

\* Rent of March and groceries of October have the same total: the year's
\* list can only have the groceries first, and so has every breakdown.
C27_Witness ==
    /\ \A list \in ExpenseRepository_get_by_year(2025) :
          /\ Len(list) = 2
          /\ list[1].category = "GROCERIES" /\ list[2].category = "RENT"
          /\ list[1].amount = list[2].amount
    /\ \A summary \in TaxService_get_tax_summary(2025) :
          /\ summary.expense_breakdown[1].category = ExpenseCategory["GROCERIES"]
          /\ summary.expense_breakdown[2].category = ExpenseCategory["RENT"]

(***************************************************************************)
(* Links of events resolve                                                 *)
(***************************************************************************)
\* The link is absent or names a record its repository returns.
Resolves(kind, link) == IsNone(link) \/ ~IsNone(GetById(kind, Val(link)))

\* C28: with foreign keys enforced, in every state reachable through any
\* sequence of repository operations, each event's linked_income_id is absent
\* or the identity of a persisted income and each event's linked_expense_id is
\* absent or the identity of a persisted expense.
C28_NoDanglingLink ==
    foreign_keys
    => \A id \in RowIds("event") :
           LET e == Val(EventRepository_get_by_id(id))
           IN  /\ Resolves("income", e.linked_income_id)
               /\ Resolves("expense", e.linked_expense_id)

\* The only expense was deleted while an event linked to it: the event is
\* still there, without the link.
C28_Witness ==
    /\ ret.op = "delete" /\ ret.kind = "expense" /\ ret.rowcount = 1
    /\ RowIds("expense") = {}
    /\ ret.nulled # {}
    /\ \A id \in ret.nulled :
          /\ id \in RowIds("event")
          /\ IsNone(Val(EventRepository_get_by_id(id)).linked_expense_id)

(***************************************************************************)
(* Identities are not assigned twice                                       *)
(***************************************************************************)
\* The largest identity the store has assigned to a record of the kind.
LargestAssigned(kind) ==
    CASE kind = "expense" -> sqlite_sequence.expenses
      [] kind = "income"  -> sqlite_sequence.incomes
      [] kind = "event"   -> sqlite_sequence.events

\* Every row's identity is one the store has assigned.
RowsWithinAssigned ==
    \A kind \in Kinds : \A id \in RowIds(kind) : id <= LargestAssigned(kind)

\* One step: the record of assigned identities never goes back; a successful
\* insert gets an identity above every identity assigned to its kind before,
\* and records it; an identity assigned before whose row is gone names no row
\* afterwards either.
IdentitiesAdvance ==
    /\ \A kind \in Kinds : LargestAssigned(kind)' >= LargestAssigned(kind)
    /\ (ret'.op = "insert" /\ ret'.raised = "")
       => \A kind \in Kinds :
             kind = ret'.kind
             => /\ Val(ret'.id) > LargestAssigned(kind)
                /\ \A id \in RowIds(kind) : Val(ret'.id) > id
                /\ LargestAssigned(kind)' = Val(ret'.id)
                /\ Val(ret'.val).id = ret'.id
    /\ \A kind \in Kinds : \A id \in 1..LargestAssigned(kind) :
          id \notin RowIds(kind) => id \notin RowIds(kind)'

\* C29: identities are never reused: within one record kind, the identity an
\* insert assigns is strictly greater than every identity assigned by an
\* earlier insert of that kind, identities of rows deleted since included, so
\* an identity whose row was deleted never comes to denote another record.
C29_IdentitiesNotReused ==
    /\ [](RowsWithinAssigned)
    /\ [][IdentitiesAdvance]_vars

\* The first income was deleted and another inserted: it has identity 2, and
\* identity 1 names no row.
C29_Witness ==
    /\ ret.op = "insert" /\ ret.kind = "income" /\ ret.id = Some(2)
    /\ RowIds("income") = {2}
    /\ IsNone(IncomeRepository_get_by_id(1))

(***************************************************************************)
(* What a write leaves alone                                               *)
(***************************************************************************)
\* The rows of a kind's table, by identity.
Table(kind) ==
    CASE kind = "expense" -> expenses
      [] kind = "income"  -> incomes
      [] kind = "event"   -> events

\* The step is an insert, update or delete that wrote its row.
WritesRow == ret'.op \in {"insert", "update", "delete"} /\ ret'.rowcount = 1

\* The row as the step leaves it when it is not the row addressed: an event's
\* link to the income or expense the step deletes is cleared, and nothing else
\* changes.
LeftAs(kind, row) ==
    IF kind = "event" /\ ret'.op = "delete" /\ ret'.kind \in {"income", "expense"}
    THEN Unlinked(row, ret'.kind, Val(ret'.id))
    ELSE row

\* A write adds or removes no row but the one it addresses and changes no
\* other row, the cleared links aside; a write to an event leaves the incomes
\* and expenses as they were.
FrameOfWrite ==
    WritesRow
    => /\ \A kind \in Kinds :
             LET addressed == IF kind = ret'.kind THEN {Val(ret'.id)} ELSE {}
             IN  /\ RowIds(kind)' \ addressed = RowIds(kind) \ addressed
                 /\ \A id \in RowIds(kind) \ addressed :
                       Table(kind)'[id] = LeftAs(kind, Table(kind)[id])
                 /\ \A id \in addressed :
                       /\ ret'.op = "insert" => id \in RowIds(kind)' \ RowIds(kind)
                       /\ ret'.op = "update" => id \in RowIds(kind)' \cap RowIds(kind)
                       /\ ret'.op = "delete" => id \in RowIds(kind) \ RowIds(kind)'
       /\ ret'.kind = "event" => incomes' = incomes /\ expenses' = expenses

\* C30: each successful insert, update or delete changes only the one row it
\* addresses: every other row of the same kind and every row of the other two
\* kinds is unchanged, except that deleting an income or expense clears the
\* matching link of the events that referenced it; deleting or updating an
\* event never deletes or changes the income or expense it links to.
C30_Frame == [][FrameOfWrite]_vars

\* An event was updated to link to income 1: the income is still persisted.
C30_Witness ==
    /\ ret.op = "update" /\ ret.kind = "event" /\ ret.rowcount = 1
    /\ Val(ret.arg).linked_income_id = Some(1)
    /\ ~IsNone(IncomeRepository_get_by_id(1))
    /\ Val(EventRepository_get_by_id(Val(ret.id))).linked_income_id = Some(1)

====
